---- MODULE Spec2Model ----
(***************************************************************************)
(* The motion execution state of the builtin motion service: the State     *)
(* (store of per-component execution histories), StartExecution,           *)
(* StopExecutionByResource, State.Stop and the goroutine each execution    *)
(* runs (plan / execute / replan).                                         *)
(*                                                                         *)
(* Every critical section of State.mu is one atomic step.  A step that is  *)
(* not under the lock is merged with the next critical section of the same *)
(* goroutine only when it touches nothing another goroutine reads.         *)
(***************************************************************************)
EXTENDS Naturals, Sequences, FiniteSets, TLC

\* ------------------------------------------------------------------ bounds
MaxExec == 2
MaxReplans == 1
MaxTime == 1
MaxCalls == 3
TTL == 0
MaxReplansDeep == 2

Comps == {"c1", "c2"}
Clients == {"p1", "p2"}
ExecIDs == 1..MaxExec
NoID == 0

\* ------------------------------------------------------------ plain values
TerminalStateSet == {"Succeeded", "Failed", "Stopped"}
NoReason == "nil"
PlanningFailed == "planning failed"
ExecutionFailed == "execution failed"
DefaultReplanReason == "replan triggered without providing a reason"
ReplanReasonText == "drift"

\* what Execute can hand back: ExecuteResp.Replan, ExecuteResp.ReplanReason (set
\* if Replan is true) and whether err is non-nil
ExecuteResults ==
    { [Replan |-> FALSE, ReplanReason |-> "", err |-> FALSE],
      [Replan |-> FALSE, ReplanReason |-> "", err |-> TRUE],
      [Replan |-> TRUE,  ReplanReason |-> ReplanReasonText, err |-> FALSE],
      [Replan |-> TRUE,  ReplanReason |-> ReplanReasonText, err |-> TRUE] }

VARIABLES
    componentStateByComponent,  \* State.componentStateByComponent
    now,                        \* the clock time.Now() reads
    nextID,                     \* the next execution id uuid.New() hands out
    rootCancelled,              \* State.cancelCtx is done
    cancelled,                  \* executions whose own cancelCauseFunc was called
    executorCancelled,          \* executions whose executorCancelCauseFunc was called
    waitGroup,                  \* execution.waitGroup counter, per execution
    stateWaitGroup,             \* State.waitGroup counter
    worker,                     \* the goroutine of execution.start, per execution
    execute,                    \* the goroutine running Execute and its resChan
    cl,                         \* the API callers: the call each is in
    lastReturn,                 \* what the step just taken returned to an API caller
    calls,                      \* the number of API calls made so far
    lastStop,                   \* the last successful StopExecutionByResource
    panicked,                   \* an API call panicked (index out of range)
    stopReturned,               \* State.Stop has returned at least once
    manager,                    \* the execManager of builtin.go and its goroutines
    planSteps                   \* the last call of toGeoPosePlanSteps: response and result

vars ==
    << componentStateByComponent, now, nextID, rootCancelled, cancelled,
       executorCancelled, waitGroup, stateWaitGroup, worker, execute, cl,
       lastReturn, calls, lastStop, panicked, stopReturned, manager, planSteps >>

\* --------------------------------------------------------- store helpers
PlanStatus(state, reason, t) == [State |-> state, Reason |-> reason, Timestamp |-> t]

Plan(e, c, n) == [ID |-> <<e, n>>, ExecutionID |-> e, ComponentName |-> c]

Prepend(x, s) == <<x>> \o s

\* componentState.lastExecutionID: executionIDHistory[0]; indexing an empty
\* slice panics, which callers test with lastExecutionIDPanics.
lastExecutionIDPanics(cs) == cs.executionIDHistory = <<>>

lastExecutionID(cs) == cs.executionIDHistory[1]

\* componentState.lastExecution
lastExecution(cs) == cs.executionsByID[lastExecutionID(cs)]

\* whether activeExecution panics: executionIDHistory[0] on an empty history, or
\* history[0] of the zero stateExecution a missing map key yields
activeExecutionPanics(S, name) ==
    /\ name \in DOMAIN S
    /\ \/ lastExecutionIDPanics(S[name])
       \/ lastExecutionID(S[name]) \notin DOMAIN S[name].executionsByID
       \/ lastExecution(S[name]).history = <<>>

\* State.activeExecution: the newest execution of the component when its newest
\* plan's newest status is not terminal
activeExecution(S, name) ==
    IF name \in DOMAIN S
    THEN LET es == lastExecution(S[name]) IN
         IF es.history[1].StatusHistory[1].State \in TerminalStateSet
         THEN [err |-> "ErrNotFound", id |-> NoID]
         ELSE [err |-> "nil", id |-> es.id]
    ELSE [err |-> "ErrUnknownResource", id |-> NoID]

\* ValidateNoActiveExecutionID that rejects nothing: every component passes
ValidateNoActiveExecutionIDSkipped(S, name) ==
    [err |-> "nil", id |-> NoID]

\* State.ValidateNoActiveExecutionID: the error StartExecution returns, or nil
ValidateNoActiveExecutionID(S, name) ==
    LET a == activeExecution(S, name) IN
    IF a.err = "nil"
    THEN [err |-> "AlreadyActive", id |-> a.id]
    ELSE [err |-> "nil", id |-> NoID]

\* updateStateNewExecution that leaves the id history of a known component as
\* it is
updateStateNewExecutionMapOnly(S, newE) ==
    IF newE.componentName \in DOMAIN S
    THEN LET cs == S[newE.componentName] IN
         IF newE.id \in DOMAIN cs.executionsByID
         THEN S
         ELSE [S EXCEPT ![newE.componentName] =
                 [executionIDHistory |-> cs.executionIDHistory,
                  executionsByID |-> (newE.id :> newE) @@ cs.executionsByID]]
    ELSE (newE.componentName :>
             [executionIDHistory |-> <<newE.id>>,
              executionsByID |-> (newE.id :> newE)]) @@ S

\* State.updateStateNewExecution
updateStateNewExecution(S, newE) ==
    IF newE.componentName \in DOMAIN S
    THEN LET cs == S[newE.componentName] IN
         IF newE.id \in DOMAIN cs.executionsByID
         THEN S
         ELSE [S EXCEPT ![newE.componentName] =
                 [executionIDHistory |-> Prepend(newE.id, cs.executionIDHistory),
                  executionsByID |-> (newE.id :> newE) @@ cs.executionsByID]]
    ELSE (newE.componentName :>
             [executionIDHistory |-> <<newE.id>>,
              executionsByID |-> (newE.id :> newE)]) @@ S

\* State.updateStateNewPlan panics when the component is missing or has no
\* execution left (lastExecutionID of the zero or emptied componentState)
updateStateNewPlanPanics(S, newPlan) ==
    /\ newPlan.planStatus.State = "InProgress"
    /\ \/ newPlan.plan.ComponentName \notin DOMAIN S
       \/ lastExecutionIDPanics(S[newPlan.plan.ComponentName])

\* updateStateNewPlan that puts the new plan in the place of the newest one
updateStateNewPlanReplacing(S, newPlan) ==
    LET c == newPlan.plan.ComponentName
        e == newPlan.plan.ExecutionID IN
    IF newPlan.planStatus.State # "InProgress"
    THEN S
    ELSE IF e # lastExecutionID(S[c])
    THEN S
    ELSE LET execution == S[c].executionsByID[e]
             pws == [Plan |-> newPlan.plan, StatusHistory |-> <<newPlan.planStatus>>] IN
         [S EXCEPT ![c].executionsByID[e].history =
             IF execution.history = << >> THEN << pws >>
             ELSE Prepend(pws, Tail(execution.history))]

\* State.updateStateNewPlan
updateStateNewPlan(S, newPlan) ==
    LET c == newPlan.plan.ComponentName
        e == newPlan.plan.ExecutionID IN
    IF newPlan.planStatus.State # "InProgress"
    THEN S
    ELSE IF e # lastExecutionID(S[c])
    THEN S
    ELSE LET execution == S[c].executionsByID[e]
             pws == [Plan |-> newPlan.plan, StatusHistory |-> <<newPlan.planStatus>>] IN
         [S EXCEPT ![c].executionsByID[e].history = Prepend(pws, execution.history)]

\* State.updateStateStatusUpdate panics on history[0] of the zero stateExecution
\* that a missing execution id yields
updateStateStatusUpdatePanics(S, update) ==
    /\ update.planStatus.State \in TerminalStateSet
    /\ update.componentName \in DOMAIN S
    /\ \/ update.executionID \notin DOMAIN S[update.componentName].executionsByID
       \/ S[update.componentName].executionsByID[update.executionID].history = <<>>

\* updateStateStatusUpdate without the comparison of the update's plan id with
\* the id of the execution's newest plan
updateStateStatusUpdateAnyPlan(S, update) ==
    LET c == update.componentName
        e == update.executionID IN
    IF update.planStatus.State \notin TerminalStateSet
    THEN S
    ELSE IF c \notin DOMAIN S
    THEN S
    ELSE [S EXCEPT ![c].executionsByID[e].history[1].StatusHistory =
            Prepend(update.planStatus, @)]

\* updateStateStatusUpdate that logs and returns on every update
updateStateStatusUpdateDropped(S, update) == S

\* State.updateStateStatusUpdate
updateStateStatusUpdate(S, update) ==
    LET c == update.componentName
        e == update.executionID IN
    IF update.planStatus.State \notin TerminalStateSet
    THEN S
    ELSE IF c \notin DOMAIN S
    THEN S
    ELSE LET lastPlanWithStatus == S[c].executionsByID[e].history[1] IN
         IF lastPlanWithStatus.Plan.ID # update.planID
         THEN S
         ELSE [S EXCEPT ![c].executionsByID[e].history[1].StatusHistory =
                 Prepend(update.planStatus, lastPlanWithStatus.StatusHistory)]

\* execution.toStateExecution
toStateExecution(e, c) == [id |-> e, componentName |-> c, history |-> <<>>]

\* notifyStateNewExecution without its updateStateNewPlan: the execution is
\* registered and its first plan left to a later notification
notifyStateNewExecutionOnly(S, execution, plan, time) ==
    updateStateNewExecution(S, execution)

\* execution.notifyStateNewExecution: both updates under one Lock
notifyStateNewExecution(S, execution, plan, time) ==
    updateStateNewPlan(
        updateStateNewExecution(S, execution),
        [plan |-> plan, planStatus |-> PlanStatus("InProgress", NoReason, time)])

\* execution.notifyStateNewPlan
notifyStateNewPlan(S, plan, time) ==
    updateStateNewPlan(S, [plan |-> plan, planStatus |-> PlanStatus("InProgress", NoReason, time)])

StatusUpdateMsg(plan, status) ==
    [componentName |-> plan.ComponentName, executionID |-> plan.ExecutionID,
     planID |-> plan.ID, planStatus |-> status]

\* execution.notifyStatePlanFailed
notifyStatePlanFailed(S, plan, reason, time) ==
    updateStateStatusUpdate(S, StatusUpdateMsg(plan, PlanStatus("Failed", reason, time)))

\* execution.notifyStatePlanSucceeded
notifyStatePlanSucceeded(S, plan, time) ==
    updateStateStatusUpdate(S, StatusUpdateMsg(plan, PlanStatus("Succeeded", NoReason, time)))

\* execution.notifyStatePlanStopped
notifyStatePlanStopped(S, plan, time) ==
    updateStateStatusUpdate(S, StatusUpdateMsg(plan, PlanStatus("Stopped", NoReason, time)))

\* ------------------------------------------------------------------- Init
\* A caller: the call it is in (op, comp), where it is in it (pc), the execution
\* it created or looked up (eid) and, in StopExecutionByResource, what the lookup
\* saw of that execution (snapshot, a history variable).
NoSnapshot == [terminal |-> FALSE, afterStop |-> FALSE, history |-> << >>]

IdleClient ==
    [pc |-> "idle", op |-> "none", comp |-> "none", eid |-> NoID, snapshot |-> NoSnapshot]

\* History variables.  lastReturn: the return of an API call in the step just taken
\* (NoReturn after any other step), with its caller, its error ("nil" for none), the
\* execution id it returned or named, how often the call invoked the factory and
\* Plan, and the list a query returned.  lastStop: the caller and execution of the last successful
\* StopExecutionByResource, until that caller's next call.
NoReturn ==
    [client |-> "none", op |-> "none", comp |-> "none", err |-> "none", id |-> NoID,
     planCalls |-> 0, result |-> << >>]

NoStop == [client |-> "none", eid |-> NoID]

\* an execution's goroutine: where it stands, replanCount, the index of lastPWE,
\* and the seed plan of its latest call of the constructor (<< >> for nil, << n >>
\* for the motion plan of its plan number n)
NoWorker ==
    [pc |-> "none", comp |-> "none", replanCount |-> 0, lastPWE |-> 0, seedPlan |-> << >>]

\* NewState
\* the two polling goroutines of spawnExecute
Watchers == {"position", "obstacle"}

\* the channels in the order flush drains them
FlushOrder ==
    << "successChan", "replanChan", "executionErrChan", "obsticlePollingErrChan",
       "positionPollingErrChan" >>

Chans == {FlushOrder[i] : i \in DOMAIN FlushOrder}

\* no execManager has been made
NoManager ==
    [pc |-> "none", cancelled |-> FALSE, backgroundWorkers |-> 0, flushed |-> 0,
     chan |-> [c \in Chans |-> 0], watcher |-> [w \in Watchers |-> "none"],
     execute |-> "none"]

\* toGeoPosePlanSteps has not been called
NoPlanSteps == [called |-> FALSE, resp |-> << >>, steps |-> << >>, err |-> "nil"]

Init ==
    /\ componentStateByComponent = << >>
    /\ now = 0
    /\ nextID = 1
    /\ rootCancelled = FALSE
    /\ cancelled = {}
    /\ executorCancelled = {}
    /\ waitGroup = [e \in ExecIDs |-> 0]
    /\ stateWaitGroup = 0
    /\ worker = [e \in ExecIDs |-> NoWorker]
    /\ execute = [e \in ExecIDs |-> [live |-> FALSE, resChan |-> FALSE]]
    /\ cl = [p \in Clients |-> IdleClient]
    /\ lastReturn = NoReturn
    /\ calls = 0
    /\ lastStop = NoStop
    /\ panicked = FALSE
    /\ stopReturned = FALSE
    /\ manager = NoManager
    /\ planSteps = NoPlanSteps

\* ---------------------------------------------------------------- helpers
store == componentStateByComponent

\* e.cancelCtx.Done(): the execution's context is a child of State.cancelCtx
Cancelled(e) == rootCancelled \/ e \in cancelled

Call(op, c) == [IdleClient EXCEPT !.op = op, !.comp = c]

Returned(p, op, c, err, id, planCalls) ==
    [client |-> p, op |-> op, comp |-> c, err |-> err, id |-> id, planCalls |-> planCalls,
     result |-> << >>]

\* a caller's next call ends what "the call right after the stop" refers to
ForgetStop(p) == IF lastStop.client = p THEN NoStop ELSE lastStop

\* the executions whose id is taken or about to be taken
IdsInUse == (nextID - 1) + Cardinality({p \in Clients : cl[p].pc = "start"})

NewestStatus(St, c, e) == St[c].executionsByID[e].history[1].StatusHistory[1]

\* --------------------------------------------------- StartExecution
\* StartExecution up to the construction of the execution: the validation
\* (activeExecution holds the read lock) and its early return
StartExecutionValidate(p, c) ==
    /\ ~panicked
    /\ cl[p].pc = "idle"
    /\ calls < MaxCalls
    /\ calls' = calls + 1
    /\ lastStop' = ForgetStop(p)
    /\ IF activeExecutionPanics(store, c)
       THEN /\ lastReturn' = Returned(p, "StartExecution", c, "panic", NoID, 0)
            /\ panicked' = TRUE
            /\ cl' = cl
       ELSE LET v == ValidateNoActiveExecutionID(store, c) IN
            /\ panicked' = panicked
            /\ IF v.err # "nil"
               THEN /\ lastReturn' = Returned(p, "StartExecution", c, v.err, v.id, 0)
                    /\ cl' = cl
               ELSE /\ IdsInUse < MaxExec
                    /\ cl' = [cl EXCEPT ![p] = [Call("StartExecution", c) EXCEPT !.pc = "start"]]
                    /\ lastReturn' = NoReturn
    /\ UNCHANGED << manager, planSteps, componentStateByComponent, now, nextID, rootCancelled, cancelled,
                    executorCancelled, waitGroup, stateWaitGroup, worker, execute,
                    stopReturned >>

\* start without the early return on a planning error
startRecordsAlways(St, planOK, e, c, time) ==
    notifyStateNewExecution(St, toStateExecution(e, c), Plan(e, c, 0), time)

\* execution.start up to the goroutine: what the State holds after
\* newPlanWithExecutor(nil, 0) returned (planOK: without error)
startRecords(St, planOK, e, c, time) ==
    IF planOK
    THEN notifyStateNewExecution(St, toStateExecution(e, c), Plan(e, c, 0), time)
    ELSE St

\* execution.start: newPlanWithExecutor(nil, 0), then notifyStateNewExecution
StartExecutionPlan(p, planOK) ==
    /\ ~panicked
    /\ cl[p].pc = "start"
    /\ componentStateByComponent' = startRecords(store, planOK, nextID, cl[p].comp, now)
    /\ IF planOK
       THEN /\ nextID' = nextID + 1
            /\ cl' = [cl EXCEPT ![p].pc = "spawn", ![p].eid = nextID]
            /\ worker' = [worker EXCEPT ![nextID].comp = cl[p].comp]
            /\ lastReturn' = NoReturn
       ELSE /\ nextID' = nextID
            /\ cl' = [cl EXCEPT ![p] = IdleClient]
            /\ worker' = worker
            /\ lastReturn' = Returned(p, "StartExecution", cl[p].comp, PlanningFailed, NoID, 1)
    /\ UNCHANGED << manager, planSteps, calls, now, rootCancelled, cancelled, executorCancelled, waitGroup,
                    stateWaitGroup, execute, lastStop, panicked, stopReturned >>

\* execution.start: both waitGroup.Add(1), the goroutine is started, the id returned
StartExecutionSpawn(p) ==
    /\ ~panicked
    /\ cl[p].pc = "spawn"
    /\ stateWaitGroup' = stateWaitGroup + 1
    /\ waitGroup' = [waitGroup EXCEPT ![cl[p].eid] = @ + 1]
    /\ worker' = [worker EXCEPT ![cl[p].eid].pc = "loop"]
    /\ cl' = [cl EXCEPT ![p] = IdleClient]
    /\ lastReturn' = Returned(p, "StartExecution", cl[p].comp, "nil", cl[p].eid, 1)
    /\ UNCHANGED << manager, planSteps, calls, componentStateByComponent, now, nextID, rootCancelled, cancelled,
                    executorCancelled, execute, lastStop, panicked, stopReturned >>

\* ------------------------------------------------ the execution's goroutine
lastPlan(e) == Plan(e, worker[e].comp, worker[e].lastPWE)

\* top of the loop: resChan is made and Execute dispatched in its own goroutine
WorkerDispatch(e) ==
    /\ ~panicked
    /\ worker[e].pc = "loop"
    /\ execute' = [execute EXCEPT ![e] = [live |-> TRUE, resChan |-> FALSE]]
    /\ worker' = [worker EXCEPT ![e].pc = "select"]
    /\ lastReturn' = NoReturn
    /\ UNCHANGED << manager, planSteps, calls, componentStateByComponent, now, nextID, rootCancelled, cancelled,
                    executorCancelled, waitGroup, stateWaitGroup, cl, lastStop, panicked,
                    stopReturned >>

\* PlannerExecutor.Execute returns and its goroutine sends on resChan (buffered,
\* so the send never blocks).  The value sent is read by WorkerResult.
ExecuteReturn(e) ==
    /\ ~panicked
    /\ execute[e].live
    /\ execute' = [execute EXCEPT ![e] = [live |-> FALSE, resChan |-> TRUE]]
    /\ UNCHANGED << manager, planSteps, componentStateByComponent, now, nextID, rootCancelled, cancelled,
                    executorCancelled, waitGroup, stateWaitGroup, worker, cl, calls,
                    lastStop, panicked, stopReturned >>
    /\ lastReturn' = NoReturn

\* a replan that gives the constructor no seed plan
replanSeedNil(w) == << >>

\* e.newPlanWithExecutor(lastPWE.motionplan, replanCount): the seed plan
replanSeed(w) == << w.lastPWE >>

\* the replan reason the loop derives from an Execute result
replanReason(r) == IF r.err THEN ExecutionFailed ELSE DefaultReplanReason

\* select, case <-e.cancelCtx.Done(): notifyStatePlanStopped
WorkerCancelled(e) ==
    /\ ~panicked
    /\ worker[e].pc = "select"
    /\ Cancelled(e)
    /\ LET u == StatusUpdateMsg(lastPlan(e), PlanStatus("Stopped", NoReason, now)) IN
       IF updateStateStatusUpdatePanics(store, u)
       THEN /\ worker' = [worker EXCEPT ![e].pc = "panicked"]
            /\ UNCHANGED componentStateByComponent
       ELSE /\ worker' = [worker EXCEPT ![e].pc = "cancelExecutor"]
            /\ componentStateByComponent' = notifyStatePlanStopped(store, lastPlan(e), now)
    /\ lastReturn' = NoReturn
    /\ UNCHANGED << manager, planSteps, calls, now, nextID, rootCancelled, cancelled, executorCancelled, waitGroup,
                    stateWaitGroup, execute, cl, lastStop, panicked, stopReturned >>

\* the result branch without notifyStatePlanFailed before notifyStateNewPlan on a
\* successful replan
notifyResultReplanSilent(St, plan, r, planOK, time) ==
    IF ~r.Replan /\ ~r.err THEN notifyStatePlanSucceeded(St, plan, time)
    ELSE IF ~r.Replan THEN notifyStatePlanFailed(St, plan, ExecutionFailed, time)
    ELSE IF ~planOK THEN notifyStatePlanFailed(St, plan, PlanningFailed, time)
    ELSE St

\* what the case res := <-resChan branch notifies first: Succeeded, Failed with
\* the error, or (replan) Failed with the planning error or the replan reason
notifyResult(St, plan, r, planOK, time) ==
    IF ~r.Replan /\ ~r.err THEN notifyStatePlanSucceeded(St, plan, time)
    ELSE IF ~r.Replan THEN notifyStatePlanFailed(St, plan, ExecutionFailed, time)
    ELSE IF ~planOK THEN notifyStatePlanFailed(St, plan, PlanningFailed, time)
    ELSE notifyStatePlanFailed(St, plan, replanReason(r), time)

\* select, case res := <-resChan: success, failure, or replan (replanCount++,
\* newPlanWithExecutor, which fails or not: planOK) up to the first notification;
\* an execution replans at most maxReplans times
WorkerResultUpTo(e, r, planOK, maxReplans) ==
    /\ ~panicked
    /\ worker[e].pc = "select"
    /\ execute[e].resChan
    /\ planOK \/ r.Replan
    /\ r.Replan => worker[e].replanCount < maxReplans
    /\ LET u == StatusUpdateMsg(lastPlan(e), PlanStatus("Failed", NoReason, now))
           rc == IF r.Replan THEN worker[e].replanCount + 1 ELSE worker[e].replanCount
           seed == IF r.Replan THEN replanSeed(worker[e]) ELSE worker[e].seedPlan IN
       IF updateStateStatusUpdatePanics(store, u)
       THEN /\ worker' = [worker EXCEPT ![e].pc = "panicked", ![e].replanCount = rc,
                                        ![e].seedPlan = seed]
            /\ UNCHANGED componentStateByComponent
       ELSE /\ worker' = [worker EXCEPT
                            ![e].pc = IF r.Replan /\ planOK THEN "newPlan" ELSE "return",
                            ![e].replanCount = rc, ![e].seedPlan = seed]
            /\ componentStateByComponent' = notifyResult(store, lastPlan(e), r, planOK, now)
    /\ execute' = [execute EXCEPT ![e].resChan = FALSE]
    /\ lastReturn' = NoReturn
    /\ UNCHANGED << manager, planSteps, calls, now, nextID, rootCancelled, cancelled, executorCancelled, waitGroup,
                    stateWaitGroup, cl, lastStop, panicked, stopReturned >>

WorkerResult(e, r, planOK) == WorkerResultUpTo(e, r, planOK, MaxReplans)

\* replan, second notification: notifyStateNewPlan, then lastPWE = newPWE
WorkerNewPlan(e) ==
    /\ ~panicked
    /\ worker[e].pc = "newPlan"
    /\ LET plan == Plan(e, worker[e].comp, worker[e].replanCount)
           msg == [plan |-> plan, planStatus |-> PlanStatus("InProgress", NoReason, now)] IN
       IF updateStateNewPlanPanics(store, msg)
       THEN /\ worker' = [worker EXCEPT ![e].pc = "panicked"]
            /\ UNCHANGED componentStateByComponent
       ELSE /\ worker' = [worker EXCEPT ![e].pc = "loop", ![e].lastPWE = worker[e].replanCount]
            /\ componentStateByComponent' = notifyStateNewPlan(store, plan, now)
    /\ lastReturn' = NoReturn
    /\ UNCHANGED << manager, planSteps, calls, now, nextID, rootCancelled, cancelled, executorCancelled, waitGroup,
                    stateWaitGroup, execute, cl, lastStop, panicked, stopReturned >>

\* the goroutine returns: after notifyStatePlanStopped it cancels the executor
\* context first; the deferred waitGroup.Done calls run (also when a
\* notification panicked: PanicCapturingGo recovers)
WorkerExit(e) ==
    /\ ~panicked
    /\ worker[e].pc \in {"return", "cancelExecutor", "panicked"}
    /\ executorCancelled' =
          IF worker[e].pc = "cancelExecutor" THEN executorCancelled \cup {e} ELSE executorCancelled
    /\ waitGroup' = [waitGroup EXCEPT ![e] = @ - 1]
    /\ stateWaitGroup' = stateWaitGroup - 1
    /\ worker' = [worker EXCEPT ![e].pc = "done"]
    /\ lastReturn' = NoReturn
    /\ UNCHANGED << manager, planSteps, calls, componentStateByComponent, now, nextID, rootCancelled, cancelled,
                    execute, cl, lastStop, panicked, stopReturned >>

\* ------------------------------------------- StopExecutionByResource
\* what StopExecutionByResource sees of the execution it looks up
Snapshot(St, c, e, afterStop) ==
    [terminal |-> NewestStatus(St, c, e).State \in TerminalStateSet,
     afterStop |-> afterStop,
     history |-> St[c].executionsByID[e].history]

\* the read-locked lookup: the error it returns early with, "panic" when
\* lastExecutionID indexes an empty executionIDHistory, "nil" when it finds
\* the execution
StopExecutionByResourceLookupErr(St, c) ==
    IF c \notin DOMAIN St THEN "ErrUnknownResource"
    ELSE IF lastExecutionIDPanics(St[c]) THEN "panic"
    ELSE IF lastExecutionID(St[c]) \notin DOMAIN St[c].executionsByID THEN "ErrNotFound"
    ELSE "nil"

StopExecutionByResourceLookup(p, c) ==
    /\ ~panicked
    /\ cl[p].pc = "idle"
    /\ calls < MaxCalls
    /\ calls' = calls + 1
    /\ lastStop' = ForgetStop(p)
    /\ LET err == StopExecutionByResourceLookupErr(store, c) IN
       IF err # "nil"
       THEN /\ lastReturn' = Returned(p, "StopExecutionByResource", c, err, NoID, 0)
            /\ panicked' = (err = "panic")
            /\ cl' = cl
       ELSE LET e == lastExecutionID(store[c]) IN
            /\ cl' = [cl EXCEPT ![p] =
                        [pc |-> "stopCancel", op |-> "StopExecutionByResource", comp |-> c,
                         eid |-> e,
                         snapshot |-> Snapshot(store, c, e,
                                         lastStop = [client |-> p, eid |-> e])]]
            /\ lastReturn' = NoReturn
            /\ panicked' = panicked
    /\ UNCHANGED << manager, planSteps, componentStateByComponent, now, nextID, rootCancelled, cancelled,
                    executorCancelled, waitGroup, stateWaitGroup, worker, execute,
                    stopReturned >>

\* a stop of one execution that cancels the context of the State instead
StopExecutionByResourceCancelRoot(p) ==
    /\ ~panicked
    /\ cl[p].pc = "stopCancel"
    /\ rootCancelled' = TRUE
    /\ cl' = [cl EXCEPT ![p].pc = "stopWait"]
    /\ lastReturn' = NoReturn
    /\ UNCHANGED << manager, planSteps, calls, componentStateByComponent, now, nextID, cancelled,
                    executorCancelled, waitGroup, stateWaitGroup, worker, execute, lastStop, panicked, stopReturned >>

\* stateExecution.stop: e.cancelCauseFunc(ErrExecutionStopped)
StopExecutionByResourceCancel(p) ==
    /\ ~panicked
    /\ cl[p].pc = "stopCancel"
    /\ cancelled' = cancelled \cup {cl[p].eid}
    /\ cl' = [cl EXCEPT ![p].pc = "stopWait"]
    /\ lastReturn' = NoReturn
    /\ UNCHANGED << manager, planSteps, calls, componentStateByComponent, now, nextID, rootCancelled,
                    executorCancelled, waitGroup, stateWaitGroup, worker, execute, lastStop, panicked, stopReturned >>

\* stateExecution.stop: e.waitGroup.Wait() returns, and the call with nil
StopExecutionByResourceWait(p) ==
    /\ ~panicked
    /\ cl[p].pc = "stopWait"
    /\ waitGroup[cl[p].eid] = 0
    /\ cl' = [cl EXCEPT ![p] = IdleClient]
    /\ lastReturn' = Returned(p, "StopExecutionByResource", cl[p].comp, "nil", cl[p].eid, 0)
    /\ lastStop' = [client |-> p, eid |-> cl[p].eid]
    /\ UNCHANGED << manager, planSteps, calls, componentStateByComponent, now, nextID, rootCancelled, cancelled,
                    executorCancelled, waitGroup, stateWaitGroup, worker, execute,
                    panicked, stopReturned >>

\* ------------------------------------------------------------ State.Stop
\* s.cancelCauseFunc(ErrExecutionStopped)
StopCancel(p) ==
    /\ ~panicked
    /\ cl[p].pc = "idle"
    /\ calls < MaxCalls
    /\ calls' = calls + 1
    /\ rootCancelled' = TRUE
    /\ cl' = [cl EXCEPT ![p] = [Call("Stop", "none") EXCEPT !.pc = "stopAllWait"]]
    /\ lastStop' = ForgetStop(p)
    /\ lastReturn' = NoReturn
    /\ UNCHANGED << manager, planSteps, componentStateByComponent, now, nextID, cancelled, executorCancelled,
                    waitGroup, stateWaitGroup, worker, execute, panicked,
                    stopReturned >>

\* s.waitGroup.Wait() returns
StopWait(p) ==
    /\ ~panicked
    /\ cl[p].pc = "stopAllWait"
    /\ stateWaitGroup = 0
    /\ cl' = [cl EXCEPT ![p] = IdleClient]
    /\ lastReturn' = Returned(p, "Stop", "none", "nil", NoID, 0)
    /\ stopReturned' = TRUE
    /\ UNCHANGED << manager, planSteps, calls, componentStateByComponent, now, nextID, rootCancelled, cancelled,
                    executorCancelled, waitGroup, stateWaitGroup, worker, execute,
                    lastStop, panicked >>

\* ---------------------------------------------------------- specification
\* The State and its executions, with the clock standing still
Next ==
    \/ \E p \in Clients, c \in Comps : StartExecutionValidate(p, c)
    \/ \E p \in Clients, planOK \in BOOLEAN : StartExecutionPlan(p, planOK)
    \/ \E p \in Clients : StartExecutionSpawn(p)
    \/ \E e \in ExecIDs : WorkerDispatch(e)
    \/ \E e \in ExecIDs : ExecuteReturn(e)
    \/ \E e \in ExecIDs : WorkerCancelled(e)
    \/ \E e \in ExecIDs, r \in ExecuteResults, planOK \in BOOLEAN : WorkerResult(e, r, planOK)
    \/ \E e \in ExecIDs : WorkerNewPlan(e)
    \/ \E e \in ExecIDs : WorkerExit(e)
    \/ \E p \in Clients, c \in Comps : StopExecutionByResourceLookup(p, c)
    \/ \E p \in Clients : StopExecutionByResourceCancel(p)
    \/ \E p \in Clients : StopExecutionByResourceWait(p)
    \/ \E p \in Clients : StopCancel(p)
    \/ \E p \in Clients : StopWait(p)

Spec == Init /\ [][Next]_vars

\* The same with executions that replan more often
NextReplan ==
    \/ Next
    \/ \E e \in ExecIDs, r \in ExecuteResults, planOK \in BOOLEAN :
          WorkerResultUpTo(e, r, planOK, MaxReplansDeep)

SpecReplan == Init /\ [][NextReplan]_vars

\* ------------------------------------------------------------ the queries
\* motion.PlanHistoryReq
PlanHistoryReqs ==
    [ComponentName : Comps, ExecutionID : {NoID} \cup ExecIDs, LastPlanOnly : BOOLEAN]

\* the zero motion.PlanWithStatus: what make([]motion.PlanWithStatus, 1) holds
\* when copy finds nothing to copy
ZeroPlanWithStatus ==
    [Plan |-> [ID |-> << NoID, 0 >>, ExecutionID |-> NoID, ComponentName |-> "none"],
     StatusHistory |-> << >>]

\* history := make([]motion.PlanWithStatus, 1); copy(history, ex.history)
FirstOf(history) == IF history = << >> THEN << ZeroPlanWithStatus >> ELSE << history[1] >>

\* PlanHistory panics when it asks an emptied componentState for its last
\* execution
PlanHistoryPanics(S, req) ==
    /\ req.ComponentName \in DOMAIN S
    /\ req.LastPlanOnly \/ req.ExecutionID = NoID
    /\ lastExecutionIDPanics(S[req.ComponentName])

\* PlanHistory of a known component that never looks at req.ExecutionID
PlanHistoryKnownNewest(cs, req) ==
    IF req.LastPlanOnly
    THEN [err |-> "nil", result |-> FirstOf(lastExecution(cs).history)]
    ELSE [err |-> "nil", result |-> lastExecution(cs).history]

\* State.PlanHistory once the componentState is found
PlanHistoryKnown(cs, req) ==
    LET executionID == req.ExecutionID IN
    IF req.LastPlanOnly
    THEN LET ex == lastExecution(cs) IN
         IF executionID = NoID \/ executionID = ex.id
         THEN [err |-> "nil", result |-> FirstOf(ex.history)]
         ELSE IF executionID \in DOMAIN cs.executionsByID
         THEN [err |-> "nil", result |-> FirstOf(cs.executionsByID[executionID].history)]
         ELSE [err |-> "ErrNotFound", result |-> << >>]
    ELSE IF executionID # NoID
    THEN IF executionID \in DOMAIN cs.executionsByID
         THEN [err |-> "nil", result |-> cs.executionsByID[executionID].history]
         ELSE [err |-> "ErrNotFound", result |-> << >>]
    ELSE [err |-> "nil", result |-> lastExecution(cs).history]

\* PlanHistory that takes a missing componentState for one without plans
PlanHistoryMissingIsEmpty(S, req) ==
    IF req.ComponentName \in DOMAIN S
    THEN PlanHistoryKnown(S[req.ComponentName], req)
    ELSE [err |-> "nil", result |-> << >>]

\* State.PlanHistory
PlanHistory(S, req) ==
    IF req.ComponentName \in DOMAIN S
    THEN PlanHistoryKnown(S[req.ComponentName], req)
    ELSE [err |-> "ErrUnknownResource", result |-> << >>]

\* motion.PlanStatusWithID of the plan at index i of an execution's history
StatusWithID(ex, i) ==
    [ExecutionID |-> ex.id, ComponentName |-> ex.componentName,
     PlanID |-> ex.history[i].Plan.ID, Status |-> ex.history[i].StatusHistory[1]]

\* the entries of one execution with only its newest plan listed
PlanEntriesNewestOnly(ex) == << StatusWithID(ex, 1) >>

\* for _, pws := range e.history
PlanEntries(ex) == [i \in 1..Len(ex.history) |-> StatusWithID(ex, i)]

\* for _, executionID := range cs.executionIDHistory
RECURSIVE ExecutionEntries(_, _)
ExecutionEntries(cs, ids) ==
    IF ids = << >> THEN << >>
    ELSE PlanEntries(cs.executionsByID[Head(ids)]) \o ExecutionEntries(cs, Tail(ids))

\* for _, cs := range s.componentStateByComponent, in the order the map yields
RECURSIVE AllEntries(_, _)
AllEntries(S, order) ==
    IF order = << >> THEN << >>
    ELSE ExecutionEntries(S[Head(order)], S[Head(order)].executionIDHistory)
            \o AllEntries(S, Tail(order))

\* the listing of every component's newest plan, whatever its status
ActiveEntriesUnfiltered(S, order) ==
    [i \in 1..Len(order) |-> StatusWithID(lastExecution(S[order[i]]), 1)]

\* for name := range s.componentStateByComponent with OnlyActivePlans
RECURSIVE ActiveEntries(_, _)
ActiveEntries(S, order) ==
    IF order = << >> THEN << >>
    ELSE LET a == activeExecution(S, Head(order)) IN
         (IF a.err = "nil"
          THEN << StatusWithID(lastExecution(S[Head(order)]), 1) >>
          ELSE << >>) \o ActiveEntries(S, Tail(order))

\* the orders in which ranging over a map with these keys can yield them
Orders(keys) ==
    {o \in [1..Cardinality(keys) -> keys] : \A i, j \in DOMAIN o : i # j => o[i] # o[j]}

AllOrders == UNION {Orders(keys) : keys \in SUBSET Comps}

\* ListPlanStatuses finds an execution id without its execution
ListPlanStatusesCorrupted(S) ==
    \E c \in DOMAIN S : \E k \in DOMAIN S[c].executionIDHistory :
        S[c].executionIDHistory[k] \notin DOMAIN S[c].executionsByID

\* ListPlanStatuses panics in activeExecution
ListPlanStatusesPanics(S, onlyActive) ==
    onlyActive /\ \E c \in DOMAIN S : activeExecutionPanics(S, c)

\* State.ListPlanStatuses
ListPlanStatuses(S, onlyActive, order) ==
    IF onlyActive
    THEN [err |-> "nil", result |-> ActiveEntries(S, order)]
    ELSE IF ListPlanStatusesCorrupted(S)
    THEN [err |-> "state is corrupted", result |-> << >>]
    ELSE [err |-> "nil", result |-> AllEntries(S, order)]

Query(op, c, id, r) ==
    [client |-> "reader", op |-> op, comp |-> c, err |-> r.err, id |-> id,
     planCalls |-> 0, result |-> r.result]

\* a call of State.PlanHistory: one critical section under RLock.  (A query that
\* follows a query at once would find the same State: it is left out.)
PlanHistoryCall(req) ==
    /\ ~panicked
    /\ lastReturn.client # "reader"
    /\ LET op == IF req.LastPlanOnly THEN "PlanHistory(LastPlanOnly)" ELSE "PlanHistory" IN
       IF PlanHistoryPanics(store, req)
       THEN /\ panicked' = TRUE
            /\ lastReturn' = Query(op, req.ComponentName, req.ExecutionID,
                                   [err |-> "panic", result |-> << >>])
       ELSE /\ panicked' = panicked
            /\ lastReturn' = Query(op, req.ComponentName, req.ExecutionID,
                                   PlanHistory(store, req))
    /\ UNCHANGED << manager, planSteps, componentStateByComponent, now, nextID, rootCancelled, cancelled,
                    executorCancelled, waitGroup, stateWaitGroup, worker, execute, cl,
                    calls, lastStop, stopReturned >>

\* a call of State.ListPlanStatuses: one critical section under RLock
ListPlanStatusesCall(onlyActive, order) ==
    /\ ~panicked
    /\ lastReturn.client # "reader"
    /\ order \in Orders(DOMAIN store)
    /\ LET op == IF onlyActive THEN "ListPlanStatuses(OnlyActivePlans)"
                               ELSE "ListPlanStatuses" IN
       IF ListPlanStatusesPanics(store, onlyActive)
       THEN /\ panicked' = TRUE
            /\ lastReturn' = Query(op, "none", NoID, [err |-> "panic", result |-> << >>])
       ELSE /\ panicked' = panicked
            /\ lastReturn' = Query(op, "none", NoID,
                                   ListPlanStatuses(store, onlyActive, order))
    /\ UNCHANGED << manager, planSteps, componentStateByComponent, now, nextID, rootCancelled, cancelled,
                    executorCancelled, waitGroup, stateWaitGroup, worker, execute, cl,
                    calls, lastStop, stopReturned >>

\* The State with callers that query it
NextRead ==
    \/ Next
    \/ \E req \in PlanHistoryReqs : PlanHistoryCall(req)
    \/ \E onlyActive \in BOOLEAN, order \in AllOrders :
          ListPlanStatusesCall(onlyActive, order)

SpecRead == Init /\ [][NextRead]_vars

\* ------------------------------------------------------------ the clock
Tick ==
    /\ ~panicked
    /\ now < MaxTime
    /\ now' = now + 1
    /\ lastReturn' = NoReturn
    /\ UNCHANGED << manager, planSteps, calls, componentStateByComponent, nextID, rootCancelled, cancelled,
                    executorCancelled, waitGroup, stateWaitGroup, worker, execute, cl,
                    lastStop, panicked, stopReturned >>

\* The same with time passing
NextTime ==
    \/ Next
    \/ Tick

SpecTime == Init /\ [][NextTime]_vars

\* ------------------------------------------------------------ the TTL sweep
\* The sweep keeps an execution unless its newest plan's newest status is
\* terminal and older than TTL.
\* an eviction rule that looks at the age of the status alone
EvictedByAge(st, time) == time > st.Timestamp + TTL

Evicted(st, time) ==
    st.State \in TerminalStateSet /\ time > st.Timestamp + TTL

\* a sweep that shortens the id history and leaves the execution map alone
SweepComponentHistoryOnly(cs, time) ==
    LET keep(e) == ~Evicted(cs.executionsByID[e].history[1].StatusHistory[1], time) IN
    [executionIDHistory |-> SelectSeq(cs.executionIDHistory, keep),
     executionsByID |-> cs.executionsByID]

SweepComponent(cs, time) ==
    LET keep(e) == ~Evicted(cs.executionsByID[e].history[1].StatusHistory[1], time)
        kept == {e \in DOMAIN cs.executionsByID : keep(e)} IN
    [executionIDHistory |-> SelectSeq(cs.executionIDHistory, keep),
     executionsByID |-> [e \in kept |-> cs.executionsByID[e]]]

\* One run of the background sweeper, under the write lock
Sweep ==
    /\ ~panicked
    /\ componentStateByComponent' = [c \in DOMAIN store |-> SweepComponent(store[c], now)]
    /\ componentStateByComponent' # componentStateByComponent
    /\ lastReturn' = NoReturn
    /\ UNCHANGED << manager, planSteps, calls, now, nextID, rootCancelled, cancelled, executorCancelled,
                    waitGroup, stateWaitGroup, worker, execute, cl, lastStop, panicked,
                    stopReturned >>

\* The State with time passing and the sweeper running
NextTTL ==
    \/ NextTime
    \/ Sweep

SpecTTL == Init /\ [][NextTTL]_vars

\* ------------------------------------------------------------ the lock
\* State.mu seen step by step, for what is eventually done.  A caller inside
\* ListPlanStatuses with OnlyActivePlans holds the read lock; a goroutine that
\* called Lock in notifyStatePlanStopped waits for the readers to leave, and
\* while a writer waits RLock admits no reader (sync.RWMutex).
ReadLocked == \E p \in Clients : cl[p].pc = "listActive"

WriterWaiting == \E e \in ExecIDs : worker[e].pc = "lockStopped"

\* select, case <-e.cancelCtx.Done(): notifyStatePlanStopped calls e.state.mu.Lock()
WorkerCancelledLock(e) ==
    /\ ~panicked
    /\ worker[e].pc = "select"
    /\ Cancelled(e)
    /\ worker' = [worker EXCEPT ![e].pc = "lockStopped"]
    /\ lastReturn' = NoReturn
    /\ UNCHANGED << manager, planSteps, calls, componentStateByComponent, now, nextID, rootCancelled, cancelled,
                    executorCancelled, waitGroup, stateWaitGroup, execute, cl, lastStop,
                    panicked, stopReturned >>

\* Lock returns once no reader holds the lock: updateStateStatusUpdate, Unlock
WorkerCancelledLocked(e) ==
    /\ ~panicked
    /\ worker[e].pc = "lockStopped"
    /\ ~ReadLocked
    /\ LET u == StatusUpdateMsg(lastPlan(e), PlanStatus("Stopped", NoReason, now)) IN
       IF updateStateStatusUpdatePanics(store, u)
       THEN /\ worker' = [worker EXCEPT ![e].pc = "panicked"]
            /\ UNCHANGED componentStateByComponent
       ELSE /\ worker' = [worker EXCEPT ![e].pc = "cancelExecutor"]
            /\ componentStateByComponent' = notifyStatePlanStopped(store, lastPlan(e), now)
    /\ lastReturn' = NoReturn
    /\ UNCHANGED << manager, planSteps, calls, now, nextID, rootCancelled, cancelled, executorCancelled, waitGroup,
                    stateWaitGroup, execute, cl, lastStop, panicked, stopReturned >>

\* ListPlanStatuses with OnlyActivePlans: s.mu.RLock() at its top
ListActiveRLock(p) ==
    /\ ~panicked
    /\ cl[p].pc = "idle"
    /\ calls < MaxCalls
    /\ ~WriterWaiting
    /\ calls' = calls + 1
    /\ cl' = [cl EXCEPT ![p] =
                [Call("ListPlanStatuses(OnlyActivePlans)", "none") EXCEPT !.pc = "listActive"]]
    /\ lastStop' = ForgetStop(p)
    /\ lastReturn' = NoReturn
    /\ UNCHANGED << manager, planSteps, componentStateByComponent, now, nextID, rootCancelled, cancelled,
                    executorCancelled, waitGroup, stateWaitGroup, worker, execute, panicked,
                    stopReturned >>

\* the loop over the components, each with activeExecution's own s.mu.RLock()
\* (none when the map is empty), and the return
ListActiveReturn(p, order) ==
    /\ ~panicked
    /\ cl[p].pc = "listActive"
    /\ order \in Orders(DOMAIN store)
    /\ DOMAIN store # {} => ~WriterWaiting
    /\ IF ListPlanStatusesPanics(store, TRUE)
       THEN /\ panicked' = TRUE
            /\ lastReturn' = [Query(cl[p].op, "none", NoID, [err |-> "panic", result |-> << >>])
                                 EXCEPT !.client = p]
       ELSE /\ panicked' = panicked
            /\ lastReturn' = [Query(cl[p].op, "none", NoID, ListPlanStatuses(store, TRUE, order))
                                 EXCEPT !.client = p]
    /\ cl' = [cl EXCEPT ![p] = IdleClient]
    /\ UNCHANGED << manager, planSteps, calls, componentStateByComponent, now, nextID, rootCancelled, cancelled,
                    executorCancelled, waitGroup, stateWaitGroup, worker, execute, lastStop,
                    stopReturned >>

\* The State with its lock: a step that takes the read lock waits while a writer
\* waits, one that takes the write lock waits while a reader holds the lock
NextLock ==
    \/ \E p \in Clients, c \in Comps : StartExecutionValidate(p, c) /\ ~WriterWaiting
    \/ \E p \in Clients, planOK \in BOOLEAN :
          StartExecutionPlan(p, planOK) /\ (planOK => ~ReadLocked)
    \/ \E p \in Clients : StartExecutionSpawn(p)
    \/ \E e \in ExecIDs : WorkerDispatch(e)
    \/ \E e \in ExecIDs : ExecuteReturn(e)
    \/ \E e \in ExecIDs : WorkerCancelledLock(e)
    \/ \E e \in ExecIDs : WorkerCancelledLocked(e)
    \/ \E e \in ExecIDs, r \in ExecuteResults, planOK \in BOOLEAN :
          WorkerResult(e, r, planOK) /\ ~ReadLocked
    \/ \E e \in ExecIDs : WorkerNewPlan(e) /\ ~ReadLocked
    \/ \E e \in ExecIDs : WorkerExit(e)
    \/ \E p \in Clients, c \in Comps : StopExecutionByResourceLookup(p, c) /\ ~WriterWaiting
    \/ \E p \in Clients : StopExecutionByResourceCancel(p)
    \/ \E p \in Clients : StopExecutionByResourceWait(p)
    \/ \E p \in Clients : StopCancel(p)
    \/ \E p \in Clients : StopWait(p)
    \/ \E p \in Clients : ListActiveRLock(p)
    \/ \E p \in Clients, order \in AllOrders : ListActiveReturn(p, order)

\* Fair scheduling: a goroutine or a caller that can take its next step
\* eventually takes it
FairLock ==
    /\ \A e \in ExecIDs :
          /\ WF_vars(WorkerDispatch(e))
          /\ WF_vars(ExecuteReturn(e))
          /\ WF_vars(WorkerCancelledLock(e))
          /\ WF_vars(WorkerCancelledLocked(e))
          /\ WF_vars(WorkerNewPlan(e) /\ ~ReadLocked)
          /\ WF_vars(WorkerExit(e))
    /\ \A p \in Clients :
          /\ WF_vars(\E planOK \in BOOLEAN :
                       StartExecutionPlan(p, planOK) /\ (planOK => ~ReadLocked))
          /\ WF_vars(StartExecutionSpawn(p))
          /\ WF_vars(StopExecutionByResourceCancel(p))
          /\ WF_vars(StopExecutionByResourceWait(p))
          /\ WF_vars(StopWait(p))
          /\ WF_vars(\E order \in AllOrders : ListActiveReturn(p, order))

SpecLock == Init /\ [][NextLock]_vars /\ FairLock

\* ------------------------------------------------- stray notifications
\* stateUpdateMsg values with a terminal status
StatusUpdates ==
    [componentName : Comps, executionID : ExecIDs,
     planID : {<< e, 0 >> : e \in ExecIDs},
     planStatus : {PlanStatus(st, NoReason, 0) : st \in TerminalStateSet}]

\* updateStateStatusUpdate applied, under the write lock, to an update that names
\* a component the State does not hold or an execution the component's map does
\* not hold; lastReturn tells how the function ended
StrayStatusUpdate(u) ==
    /\ ~panicked
    /\ IF u.componentName \in DOMAIN store
       THEN u.executionID \notin DOMAIN store[u.componentName].executionsByID
       ELSE TRUE
    /\ IF updateStateStatusUpdatePanics(store, u)
       THEN /\ panicked' = TRUE
            /\ componentStateByComponent' = componentStateByComponent
            /\ lastReturn' = [NoReturn EXCEPT !.client = "runner",
                                 !.op = "updateStateStatusUpdate", !.comp = u.componentName,
                                 !.id = u.executionID, !.err = "panic"]
       ELSE /\ panicked' = panicked
            /\ componentStateByComponent' = updateStateStatusUpdate(store, u)
            /\ lastReturn' = [NoReturn EXCEPT !.client = "runner",
                                 !.op = "updateStateStatusUpdate", !.comp = u.componentName,
                                 !.id = u.executionID, !.err = "nil"]
    /\ UNCHANGED << manager, planSteps, calls, now, nextID, rootCancelled, cancelled, executorCancelled,
                    waitGroup, stateWaitGroup, worker, execute, cl, lastStop, stopReturned >>

\* The State with status updates for executions and components it does not hold
NextStray ==
    \/ Next
    \/ \E u \in StatusUpdates : StrayStatusUpdate(u)

SpecStray == Init /\ [][NextStray]_vars

\* ============================================================ execManager
\* builtin.go: the execManager, the goroutines spawnExecute starts for it and
\* flush. The State above stands still while the manager runs.
stateVars ==
    << componentStateByComponent, now, nextID, rootCancelled, cancelled,
       executorCancelled, waitGroup, stateWaitGroup, worker, execute, cl,
       lastReturn, calls, lastStop, panicked, stopReturned >>

\* the capacity of each of the manager's channels: make(chan T, 1)
ChanCap == 1

\* the error channel spawnExecute hands to each watcher
errChan(w) == IF w = "position" THEN "positionPollingErrChan" ELSE "obsticlePollingErrChan"

\* what fn(ctx) can return: (false, nil), (true, nil), (_, err)
PollResults == {"none", "replan", "err"}

\* the placeholder predicates spawnExecute passes: position polling never asks
\* for a replan, obstacle polling always does
spawnExecuteFn(w) == IF w = "position" THEN {"none"} ELSE {"replan"}

\* newExecutionManager: a fresh scope, five empty channels, no worker
newExecutionManager ==
    /\ manager.pc = "none"
    /\ manager' = [NoManager EXCEPT !.pc = "made"]
    /\ UNCHANGED << stateVars, planSteps >>

\* spawnExecute: a watcher for each polling period above zero and the execute
\* worker, each added to backgroundWorkers before it starts
spawnExecute(polling) ==
    /\ manager.pc = "made"
    /\ manager' = [manager EXCEPT
                     !.pc = "running",
                     !.backgroundWorkers = Cardinality(polling) + 1,
                     !.watcher = [w \in Watchers |->
                                    IF w \in polling THEN "select" ELSE "none"],
                     !.execute = "execute"]
    /\ UNCHANGED << stateVars, planSteps >>

\* startPollingForReplan, select case <-ctx.Done(): return, doneFn runs
startPollingCtxDone(w) ==
    /\ manager.watcher[w] = "select"
    /\ manager.cancelled
    /\ manager' = [manager EXCEPT !.watcher[w] = "done",
                                  !.backgroundWorkers = @ - 1]
    /\ UNCHANGED << stateVars, planSteps >>

\* startPollingForReplan, select case <-ticker.C (which select may take although
\* the scope is done): fn(ctx) returns r
startPollingTick(w, r) ==
    /\ manager.watcher[w] = "select"
    /\ manager' = [manager EXCEPT !.watcher[w] =
                     CASE r = "err" -> "sendErr"
                       [] r = "replan" -> "sendReplan"
                       [] OTHER -> "select"]
    /\ UNCHANGED << stateVars, planSteps >>

\* errChan <- err or replanChan <- replan: a plain send, which waits for room
\* in the channel; then return, doneFn runs
startPollingSend(w) ==
    /\ manager.watcher[w] \in {"sendErr", "sendReplan"}
    /\ LET c == IF manager.watcher[w] = "sendErr" THEN errChan(w) ELSE "replanChan" IN
       /\ manager.chan[c] < ChanCap
       /\ manager' = [manager EXCEPT !.chan[c] = @ + 1,
                                     !.watcher[w] = "done",
                                     !.backgroundWorkers = @ - 1]
    /\ UNCHANGED << stateVars, planSteps >>

\* the execute worker: ms.execute and arrivedAtGoal return; what is left is
\* the send of the error or of the success
executeReturns(ok) ==
    /\ manager.execute = "execute"
    /\ manager' = [manager EXCEPT !.execute = IF ok THEN "sendSuccess" ELSE "sendErr"]
    /\ UNCHANGED << stateVars, planSteps >>

\* manager.executionErrChan <- err or manager.successChan <- success, then
\* return, backgroundWorkers.Done runs
executeSend ==
    /\ manager.execute \in {"sendErr", "sendSuccess"}
    /\ LET c == IF manager.execute = "sendErr" THEN "executionErrChan" ELSE "successChan" IN
       /\ manager.chan[c] < ChanCap
       /\ manager' = [manager EXCEPT !.chan[c] = @ + 1,
                                     !.execute = "done",
                                     !.backgroundWorkers = @ - 1]
    /\ UNCHANGED << stateVars, planSteps >>

\* flush: s.cancelFn()
flushCancel ==
    /\ manager.pc = "running"
    /\ manager' = [manager EXCEPT !.pc = "flushing", !.cancelled = TRUE]
    /\ UNCHANGED << stateVars, planSteps >>

\* flushChan(c), on the next channel of flush: it receives what the channel
\* holds when it looks
flushChan ==
    /\ manager.pc = "flushing"
    /\ LET i == manager.flushed + 1 IN
       manager' = [manager EXCEPT
                     !.chan[FlushOrder[i]] = 0,
                     !.flushed = i,
                     !.pc = IF i = Len(FlushOrder) THEN "wait" ELSE "flushing"]
    /\ UNCHANGED << stateVars, planSteps >>

\* flush: s.backgroundWorkers.Wait() returns
flushWait ==
    /\ manager.pc = "wait"
    /\ manager.backgroundWorkers = 0
    /\ manager' = [manager EXCEPT !.pc = "returned"]
    /\ UNCHANGED << stateVars, planSteps >>

\* every goroutine that can take a step takes one, and so does flush; the
\* ticker need not fire
FairManager ==
    /\ \A w \in Watchers : WF_vars(startPollingCtxDone(w)) /\ WF_vars(startPollingSend(w))
    /\ WF_vars(\E ok \in BOOLEAN : executeReturns(ok))
    /\ WF_vars(executeSend)
    /\ WF_vars(flushChan)
    /\ WF_vars(flushWait)

\* the manager with any predicate: startPollingForReplan takes fn as a parameter
NextManager ==
    \/ newExecutionManager
    \/ \E polling \in SUBSET Watchers : spawnExecute(polling)
    \/ \E w \in Watchers : startPollingCtxDone(w)
    \/ \E w \in Watchers : \E r \in PollResults : startPollingTick(w, r)
    \/ \E w \in Watchers : startPollingSend(w)
    \/ \E ok \in BOOLEAN : executeReturns(ok)
    \/ executeSend
    \/ flushCancel
    \/ flushChan
    \/ flushWait

SpecManager == Init /\ [][NextManager]_vars /\ FairManager

\* the manager as spawnExecute wires it today
NextManagerWired ==
    \/ newExecutionManager
    \/ \E polling \in SUBSET Watchers : spawnExecute(polling)
    \/ \E w \in Watchers : startPollingCtxDone(w)
    \/ \E w \in Watchers : \E r \in spawnExecuteFn(w) : startPollingTick(w, r)
    \/ \E w \in Watchers : startPollingSend(w)
    \/ \E ok \in BOOLEAN : executeReturns(ok)
    \/ executeSend
    \/ flushCancel
    \/ flushChan
    \/ flushWait

SpecManagerWired == Init /\ [][NextManagerWired]_vars /\ FairManager

\* ===================================================== toGeoPosePlanSteps
\* the most entries a planner response holds
MaxSteps == 2

Resources == {"r1", "r2"}

\* the poses the planner puts in PosesByComponent
PlannerPoses == {"zero"}

\* the geo poses of a response: a location and a heading in degrees
GeoPoseSet == {[Lat |-> 0, Lng |-> 0, Heading |-> h] : h \in {0, 90, 360}}

\* motionplan.PlanStep: a map from resource names to poses
PlanStepSet == UNION {[rs -> PlannerPoses] : rs \in SUBSET Resources}

StepSeqs(S) == UNION {[1..n -> S] : n \in 0..MaxSteps}

\* PlanResp, of which toGeoPosePlanSteps reads PosesByComponent and GeoPoses
PlanResps ==
    {[PosesByComponent |-> pbc, GeoPoses |-> gp] :
        pbc \in StepSeqs(PlanStepSet), gp \in StepSeqs(GeoPoseSet)}

\* math.Mod(math.Abs(geoPose.Heading()-360), 360)
heading(h) == (IF h - 360 < 0 THEN 360 - h ELSE h - 360) % 360

\* spatialmath.NewPose(r3.Vector{X: lat, Y: lng}, &OrientationVectorDegrees{OZ: 1, Theta: heading})
poseContainingGeoPose(geoPose) ==
    [X |-> geoPose.Lat, Y |-> geoPose.Lng, OZ |-> 1, Theta |-> heading(geoPose.Heading)]

\* the loop of toGeoPosePlanSteps from entry i on, with the steps made so far
RECURSIVE geoPoseStepsFrom(_, _, _)
geoPoseStepsFrom(resp, i, steps) ==
    IF i > Len(resp.PosesByComponent) THEN [steps |-> steps, err |-> "nil"]
    ELSE LET ps == resp.PosesByComponent[i] IN
         IF DOMAIN ps = {} THEN geoPoseStepsFrom(resp, i + 1, steps)
         ELSE IF Cardinality(DOMAIN ps) > 1 THEN [steps |-> << >>, err |-> "components"]
         ELSE LET resourceName == CHOOSE k \in DOMAIN ps : TRUE
                  step == [k \in {resourceName} |-> poseContainingGeoPose(resp.GeoPoses[i])] IN
              geoPoseStepsFrom(resp, i + 1, Append(steps, step))

toGeoPosePlanSteps(resp) ==
    IF Len(resp.GeoPoses) # Len(resp.PosesByComponent)
    THEN [steps |-> << >>, err |-> "length"]
    ELSE geoPoseStepsFrom(resp, 1, << >>)

\* newPlanWithExecutor converts the response pe.Plan() returned; an error ends
\* it with no plan made
toGeoPosePlanStepsCall(resp) ==
    /\ LET r == toGeoPosePlanSteps(resp) IN
       planSteps' = [called |-> TRUE, resp |-> resp, steps |-> r.steps, err |-> r.err]
    /\ UNCHANGED << stateVars, manager >>

NextSteps == \E resp \in PlanResps : toGeoPosePlanStepsCall(resp)

SpecSteps == Init /\ [][NextSteps]_vars

\* ================================================================ claims
\* the executions the State holds for a component
Executions(c) == IF c \in DOMAIN store THEN DOMAIN store[c].executionsByID ELSE {}

History(St, c, e) == St[c].executionsByID[e].history

IsActive(St, c, e) == NewestStatus(St, c, e).State = "InProgress"

\* the component's newest execution has its newest plan InProgress
NewestIsActive(c) ==
    /\ c \in DOMAIN store
    /\ store[c].executionIDHistory # << >>
    /\ IsActive(store, c, store[c].executionIDHistory[1])

\* in this step caller p invokes op on component c
Invokes(p, op, c) ==
    /\ cl[p].pc = "idle"
    /\ calls' = calls + 1
    /\ \/ cl'[p].op = op /\ cl'[p].comp = c
       \/ lastReturn'.client = p /\ lastReturn'.op = op /\ lastReturn'.comp = c

\* C1: in every reachable state at most one execution of each component has a
\* newest plan whose newest status is InProgress.
C1_AtMostOneActive ==
    \A c \in DOMAIN store :
        Cardinality({e \in Executions(c) : IsActive(store, c, e)}) <= 1

\* C2: StartExecution for a component whose newest execution has its newest plan
\* InProgress returns AlreadyActive naming that execution, with no execution id,
\* without invoking the factory or Plan, and leaves the State as it was.
C2_AlreadyActive ==
    [][\A p \in Clients, c \in Comps :
        (Invokes(p, "StartExecution", c) /\ NewestIsActive(c)) =>
            /\ lastReturn' = Returned(p, "StartExecution", c, "AlreadyActive",
                                      store[c].executionIDHistory[1], 0)
            /\ cl'[p].pc = "idle"
            /\ componentStateByComponent' = componentStateByComponent
            /\ nextID' = nextID /\ worker' = worker /\ execute' = execute]_vars

C2_Witness ==
    /\ lastReturn.op = "StartExecution"
    /\ lastReturn.err = "AlreadyActive"
    /\ lastReturn.id # NoID

\* C3: if the initial Plan fails, StartExecution returns that error with no
\* execution id, records no execution and no plan, starts no goroutine and never
\* invokes Execute.
C3_InitialPlanFails ==
    [][\A p \in Clients :
        (cl[p].pc = "start" /\ cl'[p].pc = "idle") =>
            /\ lastReturn' = Returned(p, "StartExecution", cl[p].comp, PlanningFailed, NoID, 1)
            /\ componentStateByComponent' = componentStateByComponent
            /\ nextID' = nextID /\ worker' = worker /\ execute' = execute
            /\ waitGroup' = waitGroup /\ stateWaitGroup' = stateWaitGroup]_vars

C3_Witness ==
    /\ lastReturn.op = "StartExecution"
    /\ lastReturn.err = PlanningFailed
    /\ lastReturn.id = NoID
    /\ lastReturn.comp \notin DOMAIN store

\* C4: every execution the State holds has at least one plan, and every plan a
\* status history that is not empty and whose oldest entry is InProgress with no
\* reason: no reader sees an execution without its first plan.
C4_ExecutionHasPlan ==
    \A c \in DOMAIN store : \A e \in Executions(c) :
        LET h == History(store, c, e) IN
        /\ Len(h) >= 1
        /\ \A i \in 1..Len(h) :
            /\ Len(h[i].StatusHistory) >= 1
            /\ h[i].StatusHistory[Len(h[i].StatusHistory)].State = "InProgress"
            /\ h[i].StatusHistory[Len(h[i].StatusHistory)].Reason = NoReason

C4_Witness ==
    \E c \in DOMAIN store : \E e \in Executions(c) :
        /\ Len(History(store, c, e)) = 2
        /\ Len(History(store, c, e)[2].StatusHistory) = 2
        /\ \E p \in Clients : cl[p].pc = "start"

\* C5: when an execution's context is cancelled while its newest plan's newest
\* status is InProgress, the status recorded next for that plan is Stopped with
\* no reason, never Succeeded or Failed.
C5_CancelledRecordsStopped ==
    [][\A c \in DOMAIN store : \A e \in Executions(c) :
        ( /\ Cancelled(e)
          /\ IsActive(store, c, e)
          /\ c \in DOMAIN store' /\ e \in DOMAIN store'[c].executionsByID
          /\ History(store', c, e)[1].Plan = History(store, c, e)[1].Plan
          /\ NewestStatus(store', c, e) # NewestStatus(store, c, e) )
        => /\ NewestStatus(store', c, e).State = "Stopped"
           /\ NewestStatus(store', c, e).Reason = NoReason]_vars

\* C6: when StopExecutionByResource returns nil, the goroutine of the execution
\* it stopped has returned and that execution's newest plan has a terminal
\* newest status.
C6_StopWaitsForWorker ==
    [][\A p \in Clients :
        (cl[p].pc = "stopWait" /\ cl'[p].pc = "idle") =>
            /\ worker'[cl[p].eid].pc = "done"
            /\ NewestStatus(store', cl[p].comp, cl[p].eid).State \in TerminalStateSet]_vars

\* C7: once State.Stop has returned, no execution goroutine is live and none
\* changes the State any more.
C7_NothingRunsAfterStop ==
    [][stopReturned =>
        /\ \A e \in ExecIDs : worker'[e].pc \in {"none", "done"}
        /\ componentStateByComponent' = componentStateByComponent]_vars

\* C8: StopExecutionByResource on a component whose newest execution is already
\* terminal, and StopExecutionByResource called right after a successful
\* StopExecutionByResource of the same component, return nil and leave the
\* execution's plan history as it was when the call looked the execution up.
C8_StopIdempotent ==
    [][\A p \in Clients :
        ( /\ cl[p].pc = "stopWait" /\ cl'[p].pc = "idle"
          /\ cl[p].snapshot.terminal \/ cl[p].snapshot.afterStop )
        => History(store', cl[p].comp, cl[p].eid) = cl[p].snapshot.history]_vars

\* C9: StopExecutionByResource returns ErrUnknownResource for a component
\* without componentState and ErrNotFound for one whose componentState holds no
\* execution; either way it returns an error (it does not panic), cancels
\* nothing and leaves the State as it was.
C9_StopErrors ==
    [][\A p \in Clients, c \in Comps :
        ( /\ Invokes(p, "StopExecutionByResource", c)
          /\ c \in DOMAIN store => store[c].executionIDHistory = << >> )
        => /\ lastReturn' = Returned(p, "StopExecutionByResource", c,
                                     IF c \in DOMAIN store THEN "ErrNotFound"
                                                           ELSE "ErrUnknownResource",
                                     NoID, 0)
           /\ ~panicked'
           /\ cancelled' = cancelled
           /\ componentStateByComponent' = componentStateByComponent]_vars

\* C10: the StartExecution a caller makes right after its successful
\* StopExecutionByResource of the same component, with the execution it stopped
\* still the component's newest, is not rejected as AlreadyActive.
C10_StartAfterStop ==
    [][\A p \in Clients, c \in Comps :
        ( /\ Invokes(p, "StartExecution", c)
          /\ lastStop.client = p
          /\ c \in DOMAIN store
          /\ store[c].executionIDHistory # << >>
          /\ store[c].executionIDHistory[1] = lastStop.eid )
        => lastReturn'.err # "AlreadyActive"]_vars

\* C11: when Execute returns Replan=false on an execution that is not cancelled,
\* the goroutine records one terminal status on its current plan and returns:
\* Succeeded without reason if err is nil, Failed with the error's message
\* otherwise; the plan's status history is then that status over InProgress.
C11_ResultRecorded ==
    [][\A e \in ExecIDs, r \in ExecuteResults, planOK \in BOOLEAN :
        (WorkerResult(e, r, planOK) /\ ~r.Replan /\ ~Cancelled(e)) =>
            LET h == History(store', worker[e].comp, e)[1] IN
            /\ worker'[e].pc = "return"
            /\ h.Plan = lastPlan(e)
            /\ Len(h.StatusHistory) = 2
            /\ h.StatusHistory[1] =
                  PlanStatus(IF r.err THEN "Failed" ELSE "Succeeded",
                             IF r.err THEN ExecutionFailed ELSE NoReason, now)
            /\ h.StatusHistory[2].State = "InProgress"]_vars

\* C12: when Execute returns Replan=true and the replacement is planned, the
\* previous plan's newest status becomes Failed with the Execute error's message
\* as reason if there was an error, otherwise with the ReplanReason Execute
\* returned.
C12_ReplanReason ==
    [][\A e \in ExecIDs, r \in ExecuteResults :
        (WorkerResult(e, r, TRUE) /\ r.Replan) =>
            History(store', worker[e].comp, e)[1].StatusHistory[1] =
                PlanStatus("Failed",
                           IF r.err THEN ExecutionFailed ELSE r.ReplanReason, now)]_vars

\* the plans of an execution whose newest status is InProgress
InProgressPlans(h) == {i \in 1..Len(h) : h[i].StatusHistory[1].State = "InProgress"}

\* C13: a plan is prepended to an execution's history only when the previous
\* newest plan already has Failed as newest status; the new plan's only status
\* is InProgress and it carries the previous plan's execution id; and no
\* execution ever has two plans whose newest status is InProgress.
C13_FailedBeforeNewPlan ==
    /\ [](\A c \in DOMAIN store : \A e \in Executions(c) :
            Cardinality(InProgressPlans(History(store, c, e))) <= 1)
    /\ [][\A c \in DOMAIN store : \A e \in Executions(c) :
            LET h == History(store, c, e)
                hn == History(store', c, e) IN
            (Len(h) >= 1 /\ Len(hn) > Len(h)) =>
                /\ h[1].StatusHistory[1].State = "Failed"
                /\ hn = Prepend(hn[1], h)
                /\ hn[1].StatusHistory = << PlanStatus("InProgress", NoReason, now) >>
                /\ hn[1].Plan.ExecutionID = h[1].Plan.ExecutionID]_vars

C13_Witness ==
    \E c \in DOMAIN store : \E e \in Executions(c) :
        LET h == History(store, c, e) IN
        /\ Len(h) = 3
        /\ Len(h[1].StatusHistory) = 1
        /\ h[2].StatusHistory[1].State = "Failed"

\* C14: in an execution with two or more plans every plan but the newest has a
\* terminal newest status.
C14_OlderPlansTerminal ==
    \A c \in DOMAIN store : \A e \in Executions(c) :
        LET h == History(store, c, e) IN
        \A i \in 2..Len(h) : h[i].StatusHistory[1].State \in TerminalStateSet

C14_Witness ==
    \E c \in DOMAIN store : \E e \in Executions(c) :
        LET h == History(store, c, e) IN
        /\ Len(h) = 3
        /\ h[1].StatusHistory[1].State = "Stopped"
        /\ Len(store[c].executionIDHistory) = 2

\* C15: if Plan fails during a replan, the previous plan's newest status becomes
\* Failed with the planning error's message as reason, no plan is added to the
\* execution, Execute is not dispatched again and the goroutine returns.
C15_ReplanFails ==
    [][\A e \in ExecIDs, r \in ExecuteResults :
        (WorkerResultUpTo(e, r, FALSE, MaxReplansDeep) /\ r.Replan) =>
            LET h == History(store, worker[e].comp, e)
                hn == History(store', worker[e].comp, e) IN
            /\ hn[1].Plan = lastPlan(e)
            /\ hn[1].StatusHistory[1] = PlanStatus("Failed", PlanningFailed, now)
            /\ Len(hn) = Len(h)
            /\ worker'[e].pc = "return"
            /\ ~execute'[e].live]_vars

\* C16: once a plan's newest status is terminal, no step appends a status to
\* that plan.
C16_TerminalSticky ==
    [][\A c \in DOMAIN store : \A e \in Executions(c) :
        LET h == History(store, c, e) IN
        \A i \in 1..Len(h) :
            ( /\ h[i].StatusHistory[1].State \in TerminalStateSet
              /\ c \in DOMAIN store'
              /\ e \in DOMAIN store'[c].executionsByID )
            => LET hn == History(store', c, e) IN
               /\ Len(hn) >= Len(h)
               /\ hn[i + (Len(hn) - Len(h))] = h[i]]_vars

C16_Witness ==
    \E e \in ExecIDs :
        /\ worker[e].pc \in {"return", "cancelExecutor"}
        /\ LET h == History(store, worker[e].comp, e) IN
           /\ h[1].Plan # lastPlan(e)
           /\ h[1].StatusHistory[1].State \in TerminalStateSet

\* C17: in every plan's status history the timestamps strictly decrease from
\* the newest status to the oldest.
C17_TimestampsDecrease ==
    \A c \in DOMAIN store : \A e \in Executions(c) :
        LET h == History(store, c, e) IN
        \A i \in 1..Len(h) : \A j \in 1..(Len(h[i].StatusHistory) - 1) :
            h[i].StatusHistory[j].Timestamp > h[i].StatusHistory[j + 1].Timestamp

\* C18: for a known component PlanHistory returns the plan history, newest plan
\* first, of the execution the request names, or of the component's newest
\* execution when it names none; with LastPlanOnly it returns exactly one
\* element, the first of that history.
C18_PlanHistory ==
    [][\A req \in PlanHistoryReqs :
        ( /\ PlanHistoryCall(req)
          /\ req.ComponentName \in DOMAIN store
          /\ req.ExecutionID \in {NoID} \cup Executions(req.ComponentName) )
        => LET c == req.ComponentName
               e == IF req.ExecutionID = NoID
                    THEN store[c].executionIDHistory[1] ELSE req.ExecutionID
               full == History(store, c, e) IN
           /\ lastReturn'.err = "nil"
           /\ lastReturn'.result = IF req.LastPlanOnly THEN << full[1] >> ELSE full]_vars

C18_Witness ==
    /\ lastReturn.op = "PlanHistory"
    /\ lastReturn.err = "nil"
    /\ lastReturn.id # NoID
    /\ lastReturn.id # store[lastReturn.comp].executionIDHistory[1]
    /\ Len(lastReturn.result) = 2

\* C19: PlanHistory returns an error and no plans, and leaves the State as it
\* was, when the component has no componentState (ErrUnknownResource) or the
\* request names an execution id that is not an execution of the component
\* (ErrNotFound), with and without LastPlanOnly.
C19_PlanHistoryErrors ==
    [][\A req \in PlanHistoryReqs :
        ( /\ PlanHistoryCall(req)
          /\ \/ req.ComponentName \notin DOMAIN store
             \/ req.ExecutionID \notin {NoID} \cup Executions(req.ComponentName) )
        => /\ lastReturn'.err = IF req.ComponentName \in DOMAIN store
                                THEN "ErrNotFound" ELSE "ErrUnknownResource"
           /\ lastReturn'.result = << >>
           /\ ~panicked'
           /\ componentStateByComponent' = componentStateByComponent]_vars

C19_Witness ==
    /\ lastReturn.op = "PlanHistory(LastPlanOnly)"
    /\ lastReturn.err = "ErrNotFound"
    /\ \E c \in DOMAIN store : c # lastReturn.comp /\ lastReturn.id \in Executions(c)

\* the plans the State holds: component, execution, index in its history
RecordedPlans ==
    {pl \in Comps \X ExecIDs \X (1..(MaxReplansDeep + 1)) :
        /\ pl[1] \in DOMAIN store
        /\ pl[2] \in Executions(pl[1])
        /\ pl[3] <= Len(History(store, pl[1], pl[2]))}

\* where an entry's execution stands in its component's executionIDHistory, and
\* its plan in the execution's history
ExecutionRank(entry) ==
    CHOOSE k \in DOMAIN store[entry.ComponentName].executionIDHistory :
        store[entry.ComponentName].executionIDHistory[k] = entry.ExecutionID

PlanRank(entry) ==
    CHOOSE i \in DOMAIN History(store, entry.ComponentName, entry.ExecutionID) :
        History(store, entry.ComponentName, entry.ExecutionID)[i].Plan.ID = entry.PlanID

\* C20: ListPlanStatuses without OnlyActivePlans returns exactly one entry per
\* recorded plan of every execution of every component, with that plan's newest
\* status; the entries of a component are ordered by execution, newest first,
\* and within an execution by plan, newest first.
C20_ListAllPlans ==
    [][\A order \in AllOrders :
        ListPlanStatusesCall(FALSE, order) =>
            LET res == lastReturn'.result IN
            /\ lastReturn'.err = "nil"
            /\ Len(res) = Cardinality(RecordedPlans)
            /\ \A pl \in RecordedPlans : \E k \in DOMAIN res :
                  LET pws == History(store, pl[1], pl[2])[pl[3]] IN
                  res[k] = [ExecutionID |-> pl[2], ComponentName |-> pl[1],
                            PlanID |-> pws.Plan.ID, Status |-> pws.StatusHistory[1]]
            /\ \A k, l \in DOMAIN res :
                  (k < l /\ res[k].ComponentName = res[l].ComponentName) =>
                      \/ ExecutionRank(res[k]) < ExecutionRank(res[l])
                      \/ /\ res[k].ExecutionID = res[l].ExecutionID
                         /\ PlanRank(res[k]) < PlanRank(res[l])]_vars

C20_Witness ==
    /\ lastReturn.op = "ListPlanStatuses"
    /\ Len(lastReturn.result) = 4
    /\ lastReturn.result[1].ExecutionID = lastReturn.result[2].ExecutionID
    /\ lastReturn.result[3].ExecutionID = lastReturn.result[4].ExecutionID
    /\ lastReturn.result[2].ExecutionID # lastReturn.result[3].ExecutionID
    /\ lastReturn.result[2].ComponentName = lastReturn.result[3].ComponentName

\* the entries ListPlanStatuses with OnlyActivePlans is to return: for each
\* component whose newest execution's newest plan is InProgress, that plan
ActivePlansExpected(S) ==
    {StatusWithID(lastExecution(S[c]), 1) :
        c \in {d \in DOMAIN S : IsActive(S, d, lastExecutionID(S[d]))}}

\* C21: ListPlanStatuses with OnlyActivePlans returns, once each, the newest
\* plan of every component's newest execution whose newest status is InProgress
\* and nothing else; it is empty when no execution is active; each of its
\* entries is in the listing without OnlyActivePlans.
C21_ListActivePlans ==
    [][\A order \in AllOrders :
        (ListPlanStatusesCall(TRUE, order) /\ ~panicked') =>
            LET r == lastReturn'.result
                all == ListPlanStatuses(store, FALSE, order).result IN
            /\ lastReturn'.err = "nil"
            /\ {r[i] : i \in DOMAIN r} = ActivePlansExpected(store)
            /\ Len(r) = Cardinality(ActivePlansExpected(store))
            /\ (\A c \in DOMAIN store : \A e \in Executions(c) : ~IsActive(store, c, e))
                    => r = << >>
            /\ \A i \in DOMAIN r : \E j \in DOMAIN all : all[j] = r[i]]_vars

\* the active listing holds one component's plan while the State knows two
\* components
C21_Witness ==
    /\ lastReturn.op = "ListPlanStatuses(OnlyActivePlans)"
    /\ lastReturn.err = "nil"
    /\ Len(lastReturn.result) = 1
    /\ Cardinality(DOMAIN store) = 2

\* the State holds execution e of component c, in the id history or the map
Holds(St, c, e) ==
    /\ c \in DOMAIN St
    /\ \/ e \in DOMAIN St[c].executionsByID
       \/ \E k \in DOMAIN St[c].executionIDHistory : St[c].executionIDHistory[k] = e

\* some query on St returns a plan or a status of execution e
Returns(St, e) ==
    \/ \E req \in PlanHistoryReqs :
          /\ ~PlanHistoryPanics(St, req)
          /\ \E i \in DOMAIN PlanHistory(St, req).result :
                PlanHistory(St, req).result[i].Plan.ExecutionID = e
    \/ \E onlyActive \in BOOLEAN, order \in Orders(DOMAIN St) :
          /\ ~ListPlanStatusesPanics(St, onlyActive)
          /\ \E i \in DOMAIN ListPlanStatuses(St, onlyActive, order).result :
                ListPlanStatuses(St, onlyActive, order).result[i].ExecutionID = e

Fresh(st, time) == st.State = "InProgress" \/ time <= st.Timestamp + TTL

\* s is t without some of its elements, the others in t's order
RECURSIVE IsSubSeq(_, _)
IsSubSeq(s, t) ==
    IF s = << >> THEN TRUE
    ELSE IF t = << >> THEN FALSE
    ELSE IF Head(s) = Head(t) THEN IsSubSeq(Tail(s), Tail(t))
    ELSE IsSubSeq(s, Tail(t))

\* C23: a sweep keeps, unchanged and in their order, every execution whose
\* newest plan is InProgress (of any age) or has been terminal for no longer than
\* TTL; a component whose newest execution is active before a sweep has the same
\* active execution after it, and StartExecution for such a component returns
\* AlreadyActive naming it.
C23_SweepKeepsActive ==
    [][/\ Sweep =>
            \A c \in DOMAIN store :
                /\ c \in DOMAIN store'
                /\ IsSubSeq(store'[c].executionIDHistory, store[c].executionIDHistory)
                /\ \A e \in DOMAIN store[c].executionsByID :
                      Fresh(NewestStatus(store, c, e), now) =>
                          /\ e \in DOMAIN store'[c].executionsByID
                          /\ store'[c].executionsByID[e] = store[c].executionsByID[e]
                          /\ \E k \in DOMAIN store'[c].executionIDHistory :
                                store'[c].executionIDHistory[k] = e
                /\ NewestIsActive(c) =>
                      /\ ~activeExecutionPanics(store', c)
                      /\ ValidateNoActiveExecutionID(store', c) =
                            [err |-> "AlreadyActive", id |-> lastExecutionID(store[c])]
       /\ \A p \in Clients, c \in Comps :
            (Invokes(p, "StartExecution", c) /\ NewestIsActive(c)) =>
                lastReturn' = Returned(p, "StartExecution", c, "AlreadyActive",
                                       lastExecutionID(store[c]), 0)]_vars

\* StartExecution returns AlreadyActive naming an execution whose plan has been
\* InProgress for longer than TTL, after a sweep removed an older execution of
\* the component
C23_Witness ==
    /\ lastReturn.op = "StartExecution"
    /\ lastReturn.err = "AlreadyActive"
    /\ lastReturn.comp \in DOMAIN store
    /\ now > NewestStatus(store, lastReturn.comp, lastReturn.id).Timestamp + TTL
    /\ \E e \in ExecIDs :
          /\ worker[e].pc = "done" /\ worker[e].comp = lastReturn.comp
          /\ ~Holds(store, lastReturn.comp, e)

\* C24: the steps of StopExecutionByResource(C) cancel the execution that was
\* the newest of C when the call looked it up and nothing else: they leave the
\* recorded histories, the State's context, every other execution's context,
\* and all workers as they are; and an execution's newest status only becomes
\* Stopped when its own context, or the State's, was cancelled.
C24_StopOnlyItsComponent ==
    [][/\ \A p \in Clients :
            ((\E c \in Comps : StopExecutionByResourceLookup(p, c))
                \/ StopExecutionByResourceCancel(p) \/ StopExecutionByResourceWait(p)) =>
                /\ componentStateByComponent' = componentStateByComponent
                /\ worker' = worker /\ execute' = execute
                /\ waitGroup' = waitGroup /\ stateWaitGroup' = stateWaitGroup
                /\ rootCancelled' = rootCancelled
                /\ executorCancelled' = executorCancelled
                /\ \A e \in cancelled' \ cancelled :
                      e = cl[p].eid /\ worker[e].comp = cl[p].comp
                /\ cl'[p].pc = "stopCancel" =>
                      cl'[p].eid = lastExecutionID(store[cl'[p].comp])
       /\ \A c \in DOMAIN store : \A e \in DOMAIN store[c].executionsByID :
            (IsActive(store, c, e) /\ NewestStatus(store', c, e).State = "Stopped")
                => Cancelled(e)]_vars

\* StopExecutionByResource returned for one component and its execution is
\* Stopped, while another component's execution is InProgress, not cancelled,
\* with its worker in the loop
C24_Witness ==
    /\ lastReturn.op = "StopExecutionByResource"
    /\ lastReturn.err = "nil"
    /\ NewestStatus(store, lastReturn.comp, lastReturn.id).State = "Stopped"
    /\ \E c \in DOMAIN store :
          /\ c # lastReturn.comp
          /\ NewestIsActive(c)
          /\ ~Cancelled(lastExecutionID(store[c]))
          /\ worker[lastExecutionID(store[c])].pc \in {"loop", "select"}

\* how many Stopped statuses a plan's status history holds
StoppedCount(pws) ==
    Cardinality({i \in DOMAIN pws.StatusHistory : pws.StatusHistory[i].State = "Stopped"})

\* C25: repeated and interleaved Stop and StopExecutionByResource(C) calls on a
\* State that holds an execution of C all return, StopExecutionByResource with
\* nil; when StopExecutionByResource returns for an execution whose newest plan
\* was InProgress at its lookup, the execution's newest plan has ended: its
\* newest status is terminal, and it holds at most one Stopped status, as its
\* newest; when Stop returns, no plan is InProgress and none holds more than one
\* Stopped status.
C25_StopsInterleave ==
    [][/\ \A p \in Clients, c \in Comps :
            (Invokes(p, "StopExecutionByResource", c) /\ c \in DOMAIN store) =>
                cl'[p].pc = "stopCancel"
       /\ \A p \in Clients :
            (cl[p].pc = "stopWait" /\ cl'[p].pc = "idle") =>
                /\ lastReturn'.err = "nil"
                /\ ~cl[p].snapshot.terminal =>
                      LET pws == History(store', cl[p].comp, cl[p].eid)[1] IN
                      /\ pws.StatusHistory[1].State \in TerminalStateSet
                      /\ StoppedCount(pws) =
                            IF pws.StatusHistory[1].State = "Stopped" THEN 1 ELSE 0
       /\ \A p \in Clients :
            (cl[p].pc = "stopAllWait" /\ cl'[p].pc = "idle") =>
                \A c \in DOMAIN store' : \A e \in DOMAIN store'[c].executionsByID :
                    /\ ~IsActive(store', c, e)
                    /\ \A i \in DOMAIN History(store', c, e) :
                          StoppedCount(History(store', c, e)[i]) <= 1]_vars

\* history h2 is h1 after one update: one plan with a single status prepended,
\* or one status prepended to the newest plan
OneUpdate(h1, h2) ==
    \/ /\ Len(h2) = Len(h1) + 1
       /\ Tail(h2) = h1
       /\ Len(h2[1].StatusHistory) = 1
    \/ /\ h1 # << >>
       /\ Len(h2) = Len(h1)
       /\ Tail(h2) = Tail(h1)
       /\ h2[1].Plan = h1[1].Plan
       /\ h2[1].StatusHistory # << >>
       /\ Tail(h2[1].StatusHistory) = h1[1].StatusHistory

\* C26: every step leaves what is recorded in place: each component keeps its
\* executions and the order of their ids, at most one execution's history
\* changes, and it changes by one plan (with a single status) prepended or by
\* one status prepended to its newest plan; an execution is new with one plan
\* of one status, its id prepended to the id history.
C26_AppendOnly ==
    [][\A c \in DOMAIN store :
        /\ c \in DOMAIN store'
        /\ \/ store'[c].executionIDHistory = store[c].executionIDHistory
           \/ /\ Tail(store'[c].executionIDHistory) = store[c].executionIDHistory
              /\ store'[c].executionIDHistory # << >>
              /\ Head(store'[c].executionIDHistory) \notin DOMAIN store[c].executionsByID
        /\ \A e \in DOMAIN store'[c].executionsByID \ DOMAIN store[c].executionsByID :
              /\ Len(History(store', c, e)) = 1
              /\ Len(History(store', c, e)[1].StatusHistory) = 1
        /\ \A e \in DOMAIN store[c].executionsByID :
              /\ e \in DOMAIN store'[c].executionsByID
              /\ \/ History(store', c, e) = History(store, c, e)
                 \/ /\ OneUpdate(History(store, c, e), History(store', c, e))
                    /\ \A d \in DOMAIN store : \A f \in DOMAIN store[d].executionsByID :
                          << d, f >> # << c, e >> =>
                              store'[d].executionsByID[f] = store[d].executionsByID[f]]_vars

\* an execution holds two plans of two statuses each: its history was built by
\* a status, a plan and another status prepended
C26_Witness ==
    \E c \in DOMAIN store : \E e \in DOMAIN store[c].executionsByID :
        /\ Len(History(store, c, e)) = 2
        /\ Len(History(store, c, e)[1].StatusHistory) = 2
        /\ Len(History(store, c, e)[2].StatusHistory) = 2

\* no plan holds more than one Stopped status
StoppedOnce ==
    \A c \in DOMAIN store : \A e \in DOMAIN store[c].executionsByID :
        \A i \in DOMAIN History(store, c, e) : StoppedCount(History(store, c, e)[i]) <= 1

\* the positions of execution id e in the id history of component c
Positions(c, e) ==
    {k \in DOMAIN store[c].executionIDHistory : store[c].executionIDHistory[k] = e}

\* C27: every execution id the State holds is at exactly one position of the id
\* history of exactly one componentState, that of the component it was started
\* for; a componentState's map has entries for exactly the ids of its id
\* history; the execution and each of its plans carry that id and component
\* name; ListPlanStatuses does not report a corrupted state.
C27_OneOwner ==
    /\ \A c \in DOMAIN store :
          /\ DOMAIN store[c].executionsByID =
                {store[c].executionIDHistory[k] : k \in DOMAIN store[c].executionIDHistory}
          /\ \A e \in DOMAIN store[c].executionsByID :
                /\ Cardinality(Positions(c, e)) = 1
                /\ worker[e].comp = c
                /\ \A d \in DOMAIN store : d # c => ~Holds(store, d, e)
                /\ store[c].executionsByID[e].id = e
                /\ store[c].executionsByID[e].componentName = c
                /\ \A i \in DOMAIN History(store, c, e) :
                      /\ History(store, c, e)[i].Plan.ExecutionID = e
                      /\ History(store, c, e)[i].Plan.ComponentName = c
    /\ ~ListPlanStatusesCorrupted(store)
    /\ lastReturn.err # "state is corrupted"

\* ListPlanStatuses lists the plans of a component that holds two executions
C27_Witness ==
    /\ lastReturn.op = "ListPlanStatuses"
    /\ lastReturn.err = "nil"
    /\ \E c \in DOMAIN store :
          /\ Len(store[c].executionIDHistory) = 2
          /\ \A e \in DOMAIN store[c].executionsByID :
                \E i \in DOMAIN lastReturn.result : lastReturn.result[i].ExecutionID = e

\* C28: when StopExecutionByResource returns nil after the goroutine of the
\* execution it stopped has returned, no Execute call of that execution is
\* running; when Stop returns, no Execute call of an execution whose goroutine
\* has returned is running.
C28_StopWaitsForExecute ==
    [][/\ \A p \in Clients :
            (cl[p].pc = "stopWait" /\ cl'[p].pc = "idle"
                /\ worker'[cl[p].eid].pc = "done") => ~execute'[cl[p].eid].live
       /\ \A p \in Clients :
            (cl[p].pc = "stopAllWait" /\ cl'[p].pc = "idle") =>
                \A e \in ExecIDs : worker'[e].pc = "done" => ~execute'[e].live]_vars

\* C29: under fair scheduling the goroutine of an execution whose context is
\* cancelled eventually returns, and a caller waiting in StopExecutionByResource
\* or in Stop eventually gets its return.
C29_CancelledWorkerExits ==
    /\ \A e \in ExecIDs :
          (Cancelled(e) /\ worker[e].pc \notin {"none", "done"}) ~> (worker[e].pc = "done")
    /\ \A p \in Clients :
          (cl[p].pc \in {"stopWait", "stopAllWait"}) ~> (cl[p].pc = "idle")

\* the entries of each component are next to each other in listing r
Contiguous(r) ==
    \A i, j, k \in DOMAIN r :
        (i < j /\ j < k /\ r[i].ComponentName = r[k].ComponentName)
            => r[j].ComponentName = r[i].ComponentName

\* C30: ListPlanStatuses without OnlyActivePlans lists the entries of each
\* component contiguously, and the sequence it returns is the one every call on
\* the same State returns: the order of the components is fixed by the State.
C30_ListOrderFixed ==
    [][\A order \in AllOrders :
        (ListPlanStatusesCall(FALSE, order) /\ ~panicked') =>
            /\ Contiguous(lastReturn'.result)
            /\ \A other \in Orders(DOMAIN store) :
                  ListPlanStatuses(store, FALSE, other).result = lastReturn'.result]_vars

\* ListPlanStatuses lists the entries of each component contiguously
ListContiguous ==
    [][\A order \in AllOrders :
        (ListPlanStatusesCall(FALSE, order) /\ ~panicked') =>
            Contiguous(lastReturn'.result)]_vars

\* the goroutines of component c that are inside the loop of execution.start
LiveWorkers(c) ==
    {e \in ExecIDs : worker[e].comp = c /\ worker[e].pc \in {"loop", "select", "newPlan"}}

\* C31: StartExecution admits no execution for a component while the goroutine
\* of an earlier execution of that component is inside its loop, the interval
\* of a replan between notifyStatePlanFailed and notifyStateNewPlan included.
C31_OneWorkerPerComponent ==
    [][\A p \in Clients, c \in Comps :
        (StartExecutionValidate(p, c) /\ cl'[p].pc = "start") => LiveWorkers(c) = {}]_vars

\* C32: when the goroutine of an execution dispatches Execute, the plan it
\* executes is recorded as the newest plan of that execution and its newest
\* status is InProgress.
C32_ExecutedPlanRecorded ==
    [][\A e \in ExecIDs :
        WorkerDispatch(e) =>
            /\ worker[e].comp \in DOMAIN store
            /\ e \in DOMAIN store[worker[e].comp].executionsByID
            /\ History(store, worker[e].comp, e)[1].Plan = lastPlan(e)
            /\ IsActive(store, worker[e].comp, e)]_vars

\* C33: under fair scheduling a caller inside ListPlanStatuses with
\* OnlyActivePlans eventually returns, also when a goroutine's notification
\* starts to wait for the write lock while the caller holds the read lock.
C33_ListActiveReturns ==
    \A p \in Clients : (cl[p].pc = "listActive") ~> (cl[p].pc = "idle")

\* the goroutine of execution e sends a status update in this step
SendsStatusUpdate(e) ==
    \/ WorkerCancelled(e)
    \/ \E r \in ExecuteResults, planOK \in BOOLEAN : WorkerResult(e, r, planOK)

\* the plan the goroutine of e reports on is the newest the State holds for e
ReportsNewestPlan(e) ==
    History(store, worker[e].comp, e)[1].Plan.ID = lastPlan(e).ID

\* C34: a status update for a plan that is not the newest plan of its execution
\* leaves the State as it is, and the goroutine goes on; a status update for
\* the newest plan of its execution is applied, whatever was dropped before: it
\* prepends one terminal status to that plan and changes nothing else.
C34_StaleUpdateDropped ==
    [][\A e \in ExecIDs :
        (SendsStatusUpdate(e) /\ e \in Executions(worker[e].comp)) =>
            IF ReportsNewestPlan(e)
            THEN LET h == History(store, worker[e].comp, e)
                     h2 == History(store', worker[e].comp, e) IN
                 /\ Tail(h2[1].StatusHistory) = h[1].StatusHistory
                 /\ h2[1].StatusHistory[1].State \in TerminalStateSet
                 /\ h2[1].Plan = h[1].Plan /\ Tail(h2) = Tail(h)
            ELSE /\ componentStateByComponent' = componentStateByComponent
                 /\ worker'[e].pc # "panicked"]_vars

\* the goroutine of one execution has returned after its status update was
\* dropped, and another execution's plan holds a terminal status
C34_Witness ==
    \E e \in ExecIDs :
        /\ worker[e].pc = "done"
        /\ e \in Executions(worker[e].comp)
        /\ ~ReportsNewestPlan(e)
        /\ \E f \in ExecIDs \ {e} :
              /\ f \in Executions(worker[f].comp)
              /\ ReportsNewestPlan(f)
              /\ ~IsActive(store, worker[f].comp, f)

\* C35: a status update that names a component the State does not hold, or an
\* execution its component's map does not hold, is dropped: updateStateStatusUpdate
\* returns without a panic and leaves the State as it is.
C35_UnknownUpdateDropped ==
    [][\A u \in StatusUpdates :
        StrayStatusUpdate(u) =>
            /\ lastReturn'.err = "nil"
            /\ ~panicked'
            /\ componentStateByComponent' = componentStateByComponent]_vars

\* the half of C35 about a component the State does not hold
UnknownComponentDropped ==
    [][\A u \in StatusUpdates :
        (StrayStatusUpdate(u) /\ u.componentName \notin DOMAIN store) =>
            /\ lastReturn'.err = "nil"
            /\ ~panicked'
            /\ componentStateByComponent' = componentStateByComponent]_vars

\* C36: the sweep removes no execution whose goroutine is still inside its
\* loop, and no notification of a goroutine (new plan or status update) is for
\* an execution the State no longer holds.
C36_SweepAfterWorker ==
    [][/\ Sweep =>
            \A c \in DOMAIN store : \A e \in DOMAIN store[c].executionsByID :
                ~Holds(store', c, e) => e \notin LiveWorkers(c)
       /\ \A e \in ExecIDs :
            (WorkerNewPlan(e) \/ SendsStatusUpdate(e)) => Holds(store, worker[e].comp, e)]_vars

\* C37: the initial plan of an execution comes from a constructor call with
\* replanCount 0 and no seed plan; every replan calls the constructor with the
\* replanCount one above the previous call's and the motion plan of the plan
\* made by that previous call as seed; no other step changes either.
C37_ReplanCounts ==
    [][/\ \A p \in Clients :
            StartExecutionPlan(p, TRUE) =>
                /\ worker'[nextID].replanCount = 0
                /\ worker'[nextID].seedPlan = << >>
                /\ History(store', cl[p].comp, nextID)[1].Plan = Plan(nextID, cl[p].comp, 0)
       /\ \A e \in ExecIDs :
            IF \E r \in ExecuteResults, planOK \in BOOLEAN :
                    r.Replan /\ WorkerResultUpTo(e, r, planOK, MaxReplansDeep)
            THEN /\ worker'[e].replanCount = worker[e].replanCount + 1
                 /\ worker'[e].seedPlan = << worker[e].replanCount >>
                 /\ worker[e].replanCount = 0 => worker[e].seedPlan = << >>
            ELSE /\ worker'[e].replanCount = worker[e].replanCount
                 /\ worker'[e].seedPlan = worker[e].seedPlan]_vars

\* a goroutine made its second replan, seeded with the plan of its first
C37_Witness ==
    \E e \in ExecIDs : worker[e].replanCount = 2 /\ worker[e].seedPlan = << 1 >>

\* the executor scope of e is cancelled in this step
ExecutorCancels(e) == e \in executorCancelled' /\ e \notin executorCancelled

\* the executor scope is cancelled only by a goroutine whose own scope is
\* cancelled, after Stopped is the newest recorded status of the plan it was
\* executing
C38_StoppedThenExecutor ==
    [][\A e \in ExecIDs :
        ExecutorCancels(e) =>
            /\ Cancelled(e)
            /\ worker[e].comp \in DOMAIN store
            /\ e \in Executions(worker[e].comp)
            /\ History(store, worker[e].comp, e)[1].Plan = lastPlan(e)
            /\ NewestStatus(store, worker[e].comp, e).State = "Stopped"]_vars

\* C38: cancellation goes from the execution scope to the executor scope in
\* order: the executor scope of an execution is cancelled only after its scope
\* was cancelled and Stopped was recorded for its newest plan, and never after a
\* StopExecutionByResource of that execution or a State.Stop has returned: by
\* the return of the call that stopped it, the executor scope is cancelled.
C38_CancelPropagates ==
    [][\A e \in ExecIDs :
        ExecutorCancels(e) =>
            /\ Cancelled(e)
            /\ worker[e].comp \in DOMAIN store
            /\ e \in Executions(worker[e].comp)
            /\ History(store, worker[e].comp, e)[1].Plan = lastPlan(e)
            /\ NewestStatus(store, worker[e].comp, e).State = "Stopped"
            /\ lastStop.eid # e
            /\ ~stopReturned]_vars
\* flush, once called, returns
FlushReturns == (manager.pc = "flushing") ~> (manager.pc = "returned")

RECURSIVE NonEmptyEntries(_)
NonEmptyEntries(pbc) ==
    IF pbc = << >> THEN << >>
    ELSE IF DOMAIN Head(pbc) = {} THEN NonEmptyEntries(Tail(pbc))
    ELSE << Head(pbc) >> \o NonEmptyEntries(Tail(pbc))

\* a response with an entry of more than one resource is rejected with no
\* steps; the steps of an accepted response are one per entry that names a
\* resource, in order, each mapping that one resource to a pose
StepsOfNamedEntries ==
    planSteps.called =>
        LET pbc == planSteps.resp.PosesByComponent
            named == NonEmptyEntries(pbc) IN
        /\ (\E i \in DOMAIN pbc : Cardinality(DOMAIN pbc[i]) > 1) =>
              planSteps.err # "nil" /\ planSteps.steps = << >>
        /\ planSteps.err = "nil" =>
              /\ Len(planSteps.steps) = Len(named)
              /\ \A i \in DOMAIN named :
                    /\ DOMAIN planSteps.steps[i] = DOMAIN named[i]
                    /\ Cardinality(DOMAIN planSteps.steps[i]) = 1

\* C40: the steps of the plan made from a planner response are one per entry
\* of PosesByComponent, in the same order, each mapping at most one resource
\* (the entry's) to a pose; a response with an entry of more than one resource
\* is rejected with an error and no steps.
C40_OneStepPerEntry ==
    planSteps.called =>
        LET pbc == planSteps.resp.PosesByComponent IN
        /\ (\E i \in DOMAIN pbc : Cardinality(DOMAIN pbc[i]) > 1) =>
              planSteps.err # "nil" /\ planSteps.steps = << >>
        /\ planSteps.err = "nil" =>
              /\ Len(planSteps.steps) = Len(pbc)
              /\ \A i \in DOMAIN pbc :
                    /\ DOMAIN planSteps.steps[i] = DOMAIN pbc[i]
                    /\ Cardinality(DOMAIN planSteps.steps[i]) <= 1
====
